---- MODULE Spec2Model ----
(***************************************************************************)
(* HireSense-AI: the matching and scoring engine (matching.service.js),    *)
(* the classifier and threshold sweep (ranking service), and the job and   *)
(* candidate controllers that drive them against the store.                *)
(*                                                                         *)
(* JavaScript numbers are IEEE-754 doubles.  The scorers multiply by 0.7,  *)
(* 0.3, 0.15, 0.10 and divide small integers, so their results are rounded *)
(* binary fractions.  The first part of this module is that arithmetic:    *)
(* naturals of any size as sequences of limbs, and non-negative doubles as *)
(* a mantissa and a binary exponent, rounded to 53 bits, ties to even.     *)
(***************************************************************************)
EXTENDS Integers, Sequences, FiniteSets, TLC

----------------------------------------------------------------------------
(* Naturals of any size: little-endian sequences of limbs below LimbBase,  *)
(* without leading zero limbs; <<>> is zero.                               *)

LimbBits == 3 * 5
LimbBase == 2 ^ LimbBits

RECURSIVE BigOfInt(_)
BigOfInt(n) ==
    IF n = 0 THEN <<>> ELSE <<n % LimbBase>> \o BigOfInt(n \div LimbBase)

RECURSIVE BigToInt(_)
BigToInt(x) ==
    IF x = <<>> THEN 0 ELSE Head(x) + LimbBase * BigToInt(Tail(x))

RECURSIVE BigTrim(_)
BigTrim(x) ==
    IF x = <<>> THEN <<>>
    ELSE IF x[Len(x)] = 0 THEN BigTrim(SubSeq(x, 1, Len(x) - 1))
    ELSE x

BigLimb(x, i) == IF i <= Len(x) THEN x[i] ELSE 0

RECURSIVE BigAddC(_, _, _)
BigAddC(x, y, c) ==
    IF x = <<>> /\ y = <<>>
    THEN (IF c = 0 THEN <<>> ELSE <<c>>)
    ELSE LET s == BigLimb(x, 1) + BigLimb(y, 1) + c
         IN  <<s % LimbBase>>
               \o BigAddC(IF x = <<>> THEN <<>> ELSE Tail(x),
                          IF y = <<>> THEN <<>> ELSE Tail(y),
                          s \div LimbBase)

BigAdd(x, y) == BigAddC(x, y, 0)

(* x - y for x >= y *)
RECURSIVE BigSubB(_, _, _)
BigSubB(x, y, b) ==
    IF x = <<>> THEN <<>>
    ELSE LET d == x[1] - BigLimb(y, 1) - b
         IN  <<IF d < 0 THEN d + LimbBase ELSE d>>
               \o BigSubB(Tail(x),
                          IF y = <<>> THEN <<>> ELSE Tail(y),
                          IF d < 0 THEN 1 ELSE 0)

BigSub(x, y) == BigTrim(BigSubB(x, y, 0))

(* -1, 0 or 1 as x <, =, > y *)
RECURSIVE BigCmp(_, _)
BigCmp(x, y) ==
    IF Len(x) # Len(y) THEN (IF Len(x) < Len(y) THEN -1 ELSE 1)
    ELSE IF x = <<>> THEN 0
    ELSE IF x[Len(x)] # y[Len(y)]
         THEN (IF x[Len(x)] < y[Len(y)] THEN -1 ELSE 1)
    ELSE BigCmp(SubSeq(x, 1, Len(x) - 1), SubSeq(y, 1, Len(y) - 1))

(* x * k + c for 0 <= k, c < LimbBase *)
RECURSIVE BigMulSmallC(_, _, _)
BigMulSmallC(x, k, c) ==
    IF x = <<>> THEN (IF c = 0 THEN <<>> ELSE <<c>>)
    ELSE LET p == x[1] * k + c
         IN  <<p % LimbBase>> \o BigMulSmallC(Tail(x), k, p \div LimbBase)

BigMulSmall(x, k) == BigTrim(BigMulSmallC(x, k, 0))

RECURSIVE BigMul(_, _)
BigMul(x, y) ==
    IF y = <<>> \/ x = <<>> THEN <<>>
    ELSE BigAdd(BigMulSmall(x, y[1]),
                LET r == BigMul(x, Tail(y))
                IN  IF r = <<>> THEN <<>> ELSE <<0>> \o r)

(* quotient and remainder of x by 0 < k < LimbBase, from the top limb down *)
RECURSIVE BigDivSmallR(_, _, _)
BigDivSmallR(x, k, r) ==
    IF x = <<>> THEN [q |-> <<>>, r |-> r]
    ELSE LET n    == r * LimbBase + x[Len(x)]
             rest == BigDivSmallR(SubSeq(x, 1, Len(x) - 1), k, n % k)
         IN  [q |-> rest.q \o <<n \div k>>, r |-> rest.r]

BigDivSmall(x, k) ==
    LET d == BigDivSmallR(x, k, 0) IN [q |-> BigTrim(d.q), r |-> d.r]

BigZeros(n) == [i \in 1..n |-> 0]

BigShl(x, s) ==
    IF x = <<>> THEN <<>>
    ELSE BigZeros(s \div LimbBits) \o BigMulSmall(x, 2 ^ (s % LimbBits))

BigShr(x, s) ==
    IF s \div LimbBits >= Len(x) THEN <<>>
    ELSE BigDivSmall(SubSeq(x, s \div LimbBits + 1, Len(x)), 2 ^ (s % LimbBits)).q

RECURSIVE IntBitLen(_)
IntBitLen(n) == IF n = 0 THEN 0 ELSE 1 + IntBitLen(n \div 2)

BigBitLen(x) ==
    IF x = <<>> THEN 0 ELSE LimbBits * (Len(x) - 1) + IntBitLen(x[Len(x)])

BigOdd(x) == x # <<>> /\ x[1] % 2 = 1

----------------------------------------------------------------------------
(* Non-negative doubles: [m, e] stands for m * 2^e, m of at most 53 bits   *)
(* (54 only as the power of two a rounding carried into).                  *)

MantissaBits == 52 + 1

(* n * 2^e rounded to nearest, ties to even; sticky says that the exact    *)
(* value lies strictly above n * 2^e (a division's remainder)              *)
FRound(n, e, sticky) ==
    LET len == BigBitLen(n)
    IN  IF len <= MantissaBits THEN [m |-> n, e |-> e]
        ELSE LET sh   == len - MantissaBits
                 q    == BigShr(n, sh)
                 r    == BigSub(n, BigShl(q, sh))
                 half == BigShl(<<1>>, sh - 1)
                 c    == BigCmp(r, half)
                 up   == c > 0 \/ (c = 0 /\ (sticky \/ BigOdd(q)))
             IN  [m |-> IF up THEN BigAdd(q, <<1>>) ELSE q, e |-> e + sh]

FInt(n) == [m |-> BigOfInt(n), e |-> 0]

FMinExp(x, y) == IF x.e < y.e THEN x.e ELSE y.e

FAdd(x, y) ==
    LET e == FMinExp(x, y)
    IN  FRound(BigAdd(BigShl(x.m, x.e - e), BigShl(y.m, y.e - e)), e, FALSE)

(* x - y for x >= y *)
FSub(x, y) ==
    LET e == FMinExp(x, y)
    IN  FRound(BigSub(BigShl(x.m, x.e - e), BigShl(y.m, y.e - e)), e, FALSE)

FMul(x, y) == FRound(BigMul(x.m, y.m), x.e + y.e, FALSE)

GuardBits == MantissaBits + 17

(* x / k for an integer 0 < k < LimbBase *)
FDivInt(x, k) ==
    IF x.m = <<>> THEN x
    ELSE LET d == BigDivSmall(BigShl(x.m, GuardBits), k)
         IN  FRound(d.q, x.e - GuardBits, d.r # 0)

FCmp(x, y) ==
    LET e == FMinExp(x, y)
    IN  BigCmp(BigShl(x.m, x.e - e), BigShl(y.m, y.e - e))

FGeq(x, y) == FCmp(x, y) >= 0
FGt(x, y) == FCmp(x, y) > 0
FMin(x, y) == IF FCmp(y, x) < 0 THEN y ELSE x

(* Math.round: the nearest integer, halves upwards *)
MathRound(x) ==
    IF x.e >= 0 THEN BigToInt(BigShl(x.m, x.e))
    ELSE LET s == 0 - x.e
             q == BigShr(x.m, s)
             r == BigSub(x.m, BigShl(q, s))
         IN  BigToInt(q)
               + (IF BigCmp(BigShl(r, 1), BigShl(<<1>>, s)) >= 0 THEN 1 ELSE 0)

(* the double a decimal literal n/d denotes *)
FDec(n, d) == FDivInt(FInt(n), d)

----------------------------------------------------------------------------
(* Strings are sequences of UTF-16 code units, as the strings of the code  *)
(* are.  A code unit of U+0020..U+007E, a tab, a line feed, a form feed or *)
(* a carriage return is the string of that character; any other code unit  *)
(* is written by its code, as in "U+00E9".                                 *)

HexDigits == "0123456789ABCDEF"
HexDigit(k) == SubSeq(HexDigits, k + 1, k + 1)
Hex4(n) ==
    HexDigit(n \div 4096) \o HexDigit((n \div 256) % 16)
        \o HexDigit((n \div 16) % 16) \o HexDigit(n % 16)

(* the number that a string of hexadecimal digits writes *)
RECURSIVE HexValue(_)
HexValue(h) ==
    IF h = "" THEN 0
    ELSE 16 * HexValue(SubSeq(h, 1, Len(h) - 1))
           + (CHOOSE k \in 0..15 : HexDigit(k) = SubSeq(h, Len(h), Len(h)))

(* the characters U+0020..U+005F and U+0061..U+007E *)
Printable ==
    " !\"#$%&'()*+,-./0123456789:;<=>?@ABCDEFGHIJKLMNO"
    \o "PQRSTUVWXYZ[\\]^_abcdefghijklmnopqrstuvwxyz{|}~"

(* the code unit of the code n *)
CodeUnit(n) ==
    IF n \in 32..95 THEN SubSeq(Printable, n - 31, n - 31)
    ELSE IF n \in 97..126 THEN SubSeq(Printable, n - 32, n - 32)
    ELSE IF n = 9 THEN "\t"
    ELSE IF n = 10 THEN "\n"
    ELSE IF n = 12 THEN "\f"
    ELSE IF n = 13 THEN "\r"
    ELSE "U+" \o Hex4(n)

(* the code units of the codes 9..126, each with its code *)
PrintableCodes ==
    [c \in {CodeUnit(n) : n \in 9..126} |->
        CHOOSE n \in 9..126 : CodeUnit(n) = c]

(* the code of a code unit *)
CodeOf(c) ==
    IF Len(c) = 6 THEN HexValue(SubSeq(c, 3, 6)) ELSE PrintableCodes[c]

(* the codes of the code units of a string, and the string of the codes *)
CodesOf(s) == [i \in DOMAIN s |-> CodeOf(s[i])]
StringOf(codes) == [i \in DOMAIN codes |-> CodeUnit(codes[i])]

(* the code points of the codes of a string: a high surrogate and the low  *)
(* surrogate after it are one code point, any other code unit is one by    *)
(* itself                                                                  *)
RECURSIVE CodePoints(_)
CodePoints(codes) ==
    IF codes = <<>> THEN <<>>
    ELSE IF /\ Len(codes) >= 2
            /\ codes[1] \in 55296..56319
            /\ codes[2] \in 56320..57343
    THEN <<65536 + (codes[1] - 55296) * 1024 + (codes[2] - 56320)>>
             \o CodePoints(SubSeq(codes, 3, Len(codes)))
    ELSE <<codes[1]>> \o CodePoints(Tail(codes))

(* the codes of the code units of a code point: itself, or its surrogate   *)
(* pair                                                                    *)
SurrogatePair(point) ==
    IF point < 65536 THEN <<point>>
    ELSE <<55296 + (point - 65536) \div 1024, 56320 + ((point - 65536) % 1024)>>

(* the rows of a table written as a string of rows of one width *)
Rows(table, width) ==
    {SubSeq(table, width * i + 1, width * (i + 1)) :
        i \in 0..(Len(table) \div width - 1)}

(* String.prototype.toLowerCase is the lower-case mapping of the Unicode   *)
(* Character Database (UnicodeData.txt and the unconditional and           *)
(* Final_Sigma entries of SpecialCasing.txt), here of Unicode 17.0, with   *)
(* Cased and Case_Ignorable of its DerivedCoreProperties.txt.  A row of 16 *)
(* hexadecimal digits,                                                     *)
(* 5 for first, 5 for last, 1 for step and 5 for lower, maps the code      *)
(* points first, first + step, ..., last to lower, lower + step, ...       *)
LowerCaseTable ==
    "000410005A100061000C0000D61000E0000D8000DE1000F8001000012E200101"
    \o "00130001301000690013200136200133001390014720013A0014A0017620014B"
    \o "00178001781000FF001790017D20017A00181001811002530018200184200183"
    \o "00186001861002540018700187100188001890018A1002560018B0018B10018C"
    \o "0018E0018E1001DD0018F0018F100259001900019010025B0019100191100192"
    \o "0019300193100260001940019410026300196001961002690019700197100268"
    \o "00198001981001990019C0019C10026F0019D0019D1002720019F0019F100275"
    \o "001A0001A42001A1001A6001A6100280001A7001A71001A8001A9001A9100283"
    \o "001AC001AC1001AD001AE001AE100288001AF001AF1001B0001B1001B210028A"
    \o "001B3001B52001B4001B7001B7100292001B8001B81001B9001BC001BC1001BD"
    \o "001C4001C41001C6001C5001C51001C6001C7001C71001C9001C8001C81001C9"
    \o "001CA001CA1001CC001CB001DB2001CC001DE001EE2001DF001F1001F11001F3"
    \o "001F2001F42001F3001F6001F6100195001F7001F71001BF001F80021E2001F9"
    \o "002200022010019E00222002322002230023A0023A102C650023B0023B10023C"
    \o "0023D0023D10019A0023E0023E102C6600241002411002420024300243100180"
    \o "0024400244100289002450024510028C002460024E2002470037000372200371"
    \o "00376003761003770037F0037F1003F300386003861003AC003880038A1003AD"
    \o "0038C0038C1003CC0038E0038F1003CD00391003A11003B1003A3003AB1003C3"
    \o "003CF003CF1003D7003D8003EE2003D9003F4003F41003B8003F7003F71003F8"
    \o "003F9003F91003F2003FA003FA1003FB003FD003FF10037B004000040F100450"
    \o "004100042F10043000460004802004610048A004BE20048B004C0004C01004CF"
    \o "004C1004CD2004C2004D00052E2004D10053100556100561010A0010C5102D00"
    \o "010C7010C7102D27010CD010CD102D2D013A0013EF10AB70013F0013F51013F8"
    \o "01C8901C89101C8A01C9001CBA1010D001CBD01CBF1010FD01E0001E94201E01"
    \o "01E9E01E9E1000DF01EA001EFE201EA101F0801F0F101F0001F1801F1D101F10"
    \o "01F2801F2F101F2001F3801F3F101F3001F4801F4D101F4001F5901F5F201F51"
    \o "01F6801F6F101F6001F8801F8F101F8001F9801F9F101F9001FA801FAF101FA0"
    \o "01FB801FB9101FB001FBA01FBB101F7001FBC01FBC101FB301FC801FCB101F72"
    \o "01FCC01FCC101FC301FD801FD9101FD001FDA01FDB101F7601FE801FE9101FE0"
    \o "01FEA01FEB101F7A01FEC01FEC101FE501FF801FF9101F7801FFA01FFB101F7C"
    \o "01FFC01FFC101FF302126021261003C90212A0212A10006B0212B0212B1000E5"
    \o "021320213210214E021600216F1021700218302183102184024B6024CF1024D0"
    \o "02C0002C2F102C3002C6002C60102C6102C6202C6210026B02C6302C63101D7D"
    \o "02C6402C6410027D02C6702C6B202C6802C6D02C6D10025102C6E02C6E100271"
    \o "02C6F02C6F10025002C7002C7010025202C7202C72102C7302C7502C75102C76"
    \o "02C7E02C7F10023F02C8002CE2202C8102CEB02CED202CEC02CF202CF2102CF3"
    \o "0A6400A66C20A6410A6800A69A20A6810A7220A72E20A7230A7320A76E20A733"
    \o "0A7790A77B20A77A0A77D0A77D101D790A77E0A78620A77F0A78B0A78B10A78C"
    \o "0A78D0A78D1002650A7900A79220A7910A7960A7A820A7970A7AA0A7AA100266"
    \o "0A7AB0A7AB10025C0A7AC0A7AC1002610A7AD0A7AD10026C0A7AE0A7AE10026A"
    \o "0A7B00A7B010029E0A7B10A7B11002870A7B20A7B210029D0A7B30A7B310AB53"
    \o "0A7B40A7C220A7B50A7C40A7C410A7940A7C50A7C51002820A7C60A7C6101D8E"
    \o "0A7C70A7C920A7C80A7CB0A7CB1002640A7CC0A7DA20A7CD0A7DC0A7DC10019B"
    \o "0A7F50A7F510A7F60FF210FF3A10FF411040010427110428104B0104D31104D8"
    \o "105701057A1105971057C1058A1105A31058C105921105B310594105951105BB"
    \o "10C8010CB2110CC010D5010D65110D70118A0118BF1118C016E4016E5F116E60"
    \o "16EA016EB8116EBB1E9001E92111E922"

(* the rows as <<first, last, step, lower>> *)
LowerCaseRuns ==
    {<<HexValue(SubSeq(r, 1, 5)), HexValue(SubSeq(r, 6, 10)),
       HexValue(SubSeq(r, 11, 11)), HexValue(SubSeq(r, 12, 16))>> :
        r \in Rows(LowerCaseTable, 16)}

(* the code point moved as the one run that holds it moves it *)
MovedBy(runs, point) ==
    IF runs = {} THEN point
    ELSE LET r == CHOOSE r \in runs : TRUE IN point - r[1] + r[4]

(* the lower case of a code point by the table *)
ToLowerCode(point) ==
    MovedBy({r \in LowerCaseRuns :
                /\ r[1] <= point /\ point <= r[2]
                /\ (point - r[1]) % r[3] = 0}, point)

(* the ranges of the code points with the property Cased and without the   *)
(* property Case_Ignorable, rows of the first and the last code point      *)
CasedTable ==
    "000410005A000610007A000AA000AA000B5000B5000BA000BA000C0000D6000D8000F6"
    \o "000F8001BA001BC001BF001C40029300296002AF003700037300376003770037B0037D"
    \o "0037F0037F0038600386003880038A0038C0038C0038E003A1003A3003F5003F700481"
    \o "0048A0052F00531005560056000588010A0010C5010C7010C7010CD010CD010D0010FA"
    \o "010FD010FF013A0013F5013F8013FD01C8001C8A01C9001CBA01CBD01CBF01D0001D2B"
    \o "01D6B01D7701D7901D9A01E0001F1501F1801F1D01F2001F4501F4801F4D01F5001F57"
    \o "01F5901F5901F5B01F5B01F5D01F5D01F5F01F7D01F8001FB401FB601FBC01FBE01FBE"
    \o "01FC201FC401FC601FCC01FD001FD301FD601FDB01FE001FEC01FF201FF401FF601FFC"
    \o "021020210202107021070210A021130211502115021190211D02124021240212602126"
    \o "02128021280212A0212D0212F0213402139021390213C0213F02145021490214E0214E"
    \o "021600217F0218302184024B6024E902C0002C7B02C7E02CE402CEB02CEE02CF202CF3"
    \o "02D0002D2502D2702D2702D2D02D2D0A6400A66D0A6800A69B0A7220A76F0A7710A787"
    \o "0A78B0A78E0A7900A7DC0A7F50A7F60A7FA0A7FA0AB300AB5A0AB600AB680AB700ABBF"
    \o "0FB000FB060FB130FB170FF210FF3A0FF410FF5A104001044F104B0104D3104D8104FB"
    \o "105701057A1057C1058A1058C10592105941059510597105A1105A3105B1105B3105B9"
    \o "105BB105BC10C8010CB210CC010CF210D5010D6510D7010D85118A0118DF16E4016E7F"
    \o "16EA016EB816EBB16ED31D4001D4541D4561D49C1D49E1D49F1D4A21D4A21D4A51D4A6"
    \o "1D4A91D4AC1D4AE1D4B91D4BB1D4BB1D4BD1D4C31D4C51D5051D5071D50A1D50D1D514"
    \o "1D5161D51C1D51E1D5391D53B1D53E1D5401D5441D5461D5461D54A1D5501D5521D6A5"
    \o "1D6A81D6C01D6C21D6DA1D6DC1D6FA1D6FC1D7141D7161D7341D7361D74E1D7501D76E"
    \o "1D7701D7881D78A1D7A81D7AA1D7C21D7C41D7CB1DF001DF091DF0B1DF1E1DF251DF2A"
    \o "1E9001E9431F1301F1491F1501F1691F1701F189"

(* the ranges of the code points with the property Case_Ignorable *)
CaseIgnorableTable ==
    "00027000270002E0002E0003A0003A0005E0005E0006000060000A8000A8000AD000AD"
    \o "000AF000AF000B4000B4000B7000B8002B00036F00374003750037A0037A0038400385"
    \o "0038700387004830048900559005590055F0055F00591005BD005BF005BF005C1005C2"
    \o "005C4005C5005C7005C7005F4005F40060000605006100061A0061C0061C0064000640"
    \o "0064B0065F0067000670006D6006DD006DF006E8006EA006ED0070F0070F0071100711"
    \o "007300074A007A6007B0007EB007F5007FA007FA007FD007FD008160082D008590085B"
    \o "00888008880089000891008970089F008C9009020093A0093A0093C0093C0094100948"
    \o "0094D0094D0095100957009620096300971009710098100981009BC009BC009C1009C4"
    \o "009CD009CD009E2009E3009FE009FE00A0100A0200A3C00A3C00A4100A4200A4700A48"
    \o "00A4B00A4D00A5100A5100A7000A7100A7500A7500A8100A8200ABC00ABC00AC100AC5"
    \o "00AC700AC800ACD00ACD00AE200AE300AFA00AFF00B0100B0100B3C00B3C00B3F00B3F"
    \o "00B4100B4400B4D00B4D00B5500B5600B6200B6300B8200B8200BC000BC000BCD00BCD"
    \o "00C0000C0000C0400C0400C3C00C3C00C3E00C4000C4600C4800C4A00C4D00C5500C56"
    \o "00C6200C6300C8100C8100CBC00CBC00CBF00CBF00CC600CC600CCC00CCD00CE200CE3"
    \o "00D0000D0100D3B00D3C00D4100D4400D4D00D4D00D6200D6300D8100D8100DCA00DCA"
    \o "00DD200DD400DD600DD600E3100E3100E3400E3A00E4600E4E00EB100EB100EB400EBC"
    \o "00EC600EC600EC800ECE00F1800F1900F3500F3500F3700F3700F3900F3900F7100F7E"
    \o "00F8000F8400F8600F8700F8D00F9700F9900FBC00FC600FC60102D010300103201037"
    \o "010390103A0103D0103E01058010590105E01060010710107401082010820108501086"
    \o "0108D0108D0109D0109D010FC010FC0135D0135F017120171401732017330175201753"
    \o "0177201773017B4017B5017B7017BD017C6017C6017C9017D3017D7017D7017DD017DD"
    \o "0180B0180F01843018430188501886018A9018A9019200192201927019280193201932"
    \o "019390193B01A1701A1801A1B01A1B01A5601A5601A5801A5E01A6001A6001A6201A62"
    \o "01A6501A6C01A7301A7C01A7F01A7F01AA701AA701AB001ADD01AE001AEB01B0001B03"
    \o "01B3401B3401B3601B3A01B3C01B3C01B4201B4201B6B01B7301B8001B8101BA201BA5"
    \o "01BA801BA901BAB01BAD01BE601BE601BE801BE901BED01BED01BEF01BF101C2C01C33"
    \o "01C3601C3701C7801C7D01CD001CD201CD401CE001CE201CE801CED01CED01CF401CF4"
    \o "01CF801CF901D2C01D6A01D7801D7801D9B01DFF01FBD01FBD01FBF01FC101FCD01FCF"
    \o "01FDD01FDF01FED01FEF01FFD01FFE0200B0200F020180201902024020240202702027"
    \o "0202A0202E0206002064020660206F02071020710207F0207F020900209C020D0020F0"
    \o "02C7C02C7D02CEF02CF102D6F02D6F02D7F02D7F02DE002DFF02E2F02E2F0300503005"
    \o "0302A0302D03031030350303B0303B030990309E030FC030FE0A0150A0150A4F80A4FD"
    \o "0A60C0A60C0A66F0A6720A6740A67D0A67F0A67F0A69C0A69F0A6F00A6F10A7000A721"
    \o "0A7700A7700A7880A78A0A7F10A7F40A7F80A7F90A8020A8020A8060A8060A80B0A80B"
    \o "0A8250A8260A82C0A82C0A8C40A8C50A8E00A8F10A8FF0A8FF0A9260A92D0A9470A951"
    \o "0A9800A9820A9B30A9B30A9B60A9B90A9BC0A9BD0A9CF0A9CF0A9E50A9E60AA290AA2E"
    \o "0AA310AA320AA350AA360AA430AA430AA4C0AA4C0AA700AA700AA7C0AA7C0AAB00AAB0"
    \o "0AAB20AAB40AAB70AAB80AABE0AABF0AAC10AAC10AADD0AADD0AAEC0AAED0AAF30AAF4"
    \o "0AAF60AAF60AB5B0AB5F0AB690AB6B0ABE50ABE50ABE80ABE80ABED0ABED0FB1E0FB1E"
    \o "0FBB20FBC20FE000FE0F0FE130FE130FE200FE2F0FE520FE520FE550FE550FEFF0FEFF"
    \o "0FF070FF070FF0E0FF0E0FF1A0FF1A0FF3E0FF3E0FF400FF400FF700FF700FF9E0FF9F"
    \o "0FFE30FFE30FFF90FFFB101FD101FD102E0102E0103761037A107801078510787107B0"
    \o "107B2107BA10A0110A0310A0510A0610A0C10A0F10A3810A3A10A3F10A3F10AE510AE6"
    \o "10D2410D2710D4E10D4E10D6910D6D10D6F10D6F10EAB10EAC10EC510EC510EFA10EFF"
    \o "10F4610F5010F8210F8511001110011103811046110701107011073110741107F11081"
    \o "110B3110B6110B9110BA110BD110BD110C2110C2110CD110CD1110011102111271112B"
    \o "1112D1113411173111731118011181111B6111BE111C9111CC111CF111CF1122F11231"
    \o "112341123411236112371123E1123E1124111241112DF112DF112E3112EA1130011301"
    \o "1133B1133C1134011340113661136C1137011374113BB113C0113CE113CE113D0113D0"
    \o "113D2113D2113E1113E2114381143F114421144411446114461145E1145E114B3114B8"
    \o "114BA114BA114BF114C0114C2114C3115B2115B5115BC115BD115BF115C0115DC115DD"
    \o "116331163A1163D1163D1163F11640116AB116AB116AD116AD116B0116B5116B7116B7"
    \o "1171D1171D1171F1171F1172211725117271172B1182F11837118391183A1193B1193C"
    \o "1193E1193E1194311943119D4119D7119DA119DB119E0119E011A0111A0A11A3311A38"
    \o "11A3B11A3E11A4711A4711A5111A5611A5911A5B11A8A11A9611A9811A9911B6011B60"
    \o "11B6211B6411B6611B6611C3011C3611C3811C3D11C3F11C3F11C9211CA711CAA11CB0"
    \o "11CB211CB311CB511CB611D3111D3611D3A11D3A11D3C11D3D11D3F11D4511D4711D47"
    \o "11D9011D9111D9511D9511D9711D9711DD911DD911EF311EF411F0011F0111F3611F3A"
    \o "11F4011F4011F4211F4211F5A11F5A134301344013447134551611E161291612D1612F"
    \o "16AF016AF416B3016B3616B4016B4316D4016D4216D6B16D6C16F4F16F4F16F8F16F9F"
    \o "16FE016FE116FE316FE416FF216FF31AFF01AFF31AFF51AFFB1AFFD1AFFE1BC9D1BC9E"
    \o "1BCA01BCA31CF001CF2D1CF301CF461D1671D1691D1731D1821D1851D18B1D1AA1D1AD"
    \o "1D2421D2441DA001DA361DA3B1DA6C1DA751DA751DA841DA841DA9B1DA9F1DAA11DAAF"
    \o "1E0001E0061E0081E0181E01B1E0211E0231E0241E0261E02A1E0301E06D1E08F1E08F"
    \o "1E1301E13D1E2AE1E2AE1E2EC1E2EF1E4EB1E4EF1E5EE1E5EF1E6E31E6E31E6E61E6E6"
    \o "1E6EE1E6EF1E6F51E6F51E6FF1E6FF1E8D01E8D61E9441E94B1F3FB1F3FFE0001E0001"
    \o "E0020E007FE0100E01EF"

(* the rows as <<first, last>> *)
Ranges(table) ==
    {<<HexValue(SubSeq(r, 1, 5)), HexValue(SubSeq(r, 6, 10))>> :
        r \in Rows(table, 10)}
CasedLetters == Ranges(CasedTable)
CaseIgnorable == Ranges(CaseIgnorableTable)
InRanges(point, ranges) == \E r \in ranges : r[1] <= point /\ point <= r[2]

(* going from i by step, the first code point that is not case-ignorable   *)
(* is a cased letter                                                       *)
RECURSIVE CasedLetterNext(_, _, _)
CasedLetterNext(points, i, step) ==
    IF i < 1 \/ i > Len(points) THEN FALSE
    ELSE IF InRanges(points[i], CaseIgnorable)
    THEN CasedLetterNext(points, i + step, step)
    ELSE InRanges(points[i], CasedLetters)

(* the condition Final_Sigma of SpecialCasing.txt *)
FinalSigma(points, i) ==
    \A step \in {0 - 1, 1} :
        CasedLetterNext(points, i + step, step) = (step < 0)

(* the lower case of the i-th code point of a string: U+03A3, the capital  *)
(* sigma, becomes U+03C2 at the end of a word and U+03C3 elsewhere, and    *)
(* U+0130, the capital I with a dot, becomes 'i' and U+0307                *)
ToLowerPoint(points, i) ==
    IF points[i] = 931 THEN (IF FinalSigma(points, i) THEN <<962>> ELSE <<963>>)
    ELSE IF points[i] = 304 THEN <<105, 775>>
    ELSE <<ToLowerCode(points[i])>>

RECURSIVE Joined(_, _)
Joined(parts, i) ==
    IF i > Len(parts) THEN <<>> ELSE parts[i] \o Joined(parts, i + 1)

(* the lower case of a sequence of code points *)
ToLowerPoints(points) ==
    Joined([i \in DOMAIN points |-> ToLowerPoint(points, i)], 1)

(* the codes of the code units of a sequence of code points *)
SurrogatePairs(points) ==
    Joined([i \in DOMAIN points |-> SurrogatePair(points[i])], 1)

(* String.prototype.toLowerCase: the code points of the string, the lower  *)
(* case of each, and the code units of these; each step is the one element *)
(* of a set, which has it worked out once for the next step                *)
toLowerCase(s) ==
    CHOOSE lowered \in
        {StringOf(units) :
            units \in {SurrogatePairs(ToLowerPoints(points)) :
                points \in {CodePoints(codes) :
                    codes \in {CodesOf(s)}}}} : TRUE

(* the lower case of one code unit taken alone, as code units *)
ToLowerChar(c) == toLowerCase(<<c>>)

(* the code units that toLowerCase changes, and what each becomes *)
UpperCase ==
    {CodeUnit(point) :
        point \in UNION {{r[1] + r[3] * k : k \in 0..((r[2] - r[1]) \div r[3])} :
                          r \in {r \in LowerCaseRuns : r[2] < 65536}}}
LowerCase == [c \in UpperCase |-> ToLowerChar(c)]

(* the class \s: the white space and the line terminators; a character    *)
(* that a string of TLA+ cannot hold is written by its code point          *)
WhiteSpace ==
    {" ", "\t", "\n", "\r", "\f", "U+000B", "U+00A0", "U+1680", "U+2000",
     "U+2001", "U+2002", "U+2003", "U+2004", "U+2005", "U+2006", "U+2007",
     "U+2008", "U+2009", "U+200A", "U+2028", "U+2029", "U+202F", "U+205F",
     "U+3000", "U+FEFF"}

(* the class [.\-_\s] *)
Separators == {".", "-", "_"} \cup WhiteSpace
IsSeparator(c) == c \in Separators
NotSeparator(c) == ~IsSeparator(c)

(* the least index at which t occurs in s, 0 when it does not *)
IndexOf(s, t) ==
    LET at == {i \in 1..(Len(s) - Len(t) + 1) : SubSeq(s, i, i + Len(t) - 1) = t}
    IN  IF at = {} THEN 0 ELSE CHOOSE i \in at : \A j \in at : i <= j

(* String.prototype.includes *)
includes(s, t) == Len(t) = 0 \/ IndexOf(s, t) > 0

(* s.replace(/t/i, r) on a lower-cased s: the first occurrence only *)
ReplaceFirst(s, t, r) ==
    LET i == IndexOf(s, t)
    IN  IF i = 0 THEN s
        ELSE SubSeq(s, 1, i - 1) \o r \o SubSeq(s, i + Len(t), Len(s))

(* s.replace(/t$/i, r) *)
ReplaceAtEnd(s, t, r) ==
    IF Len(s) >= Len(t) /\ SubSeq(s, Len(s) - Len(t) + 1, Len(s)) = t
    THEN SubSeq(s, 1, Len(s) - Len(t)) \o r
    ELSE s

(* s.replace(/^t/i, r) *)
ReplaceAtStart(s, t, r) ==
    IF Len(s) >= Len(t) /\ SubSeq(s, 1, Len(t)) = t
    THEN r \o SubSeq(s, Len(t) + 1, Len(s))
    ELSE s

Str_js == <<"j", "s">>
Str_javascript == <<"j", "a", "v", "a", "s", "c", "r", "i", "p", "t">>
Str_reactjs == <<"r", "e", "a", "c", "t", "j", "s">>
Str_react == <<"r", "e", "a", "c", "t">>
Str_nodejs == <<"n", "o", "d", "e", "j", "s">>
Str_node == <<"n", "o", "d", "e">>
Str_vuejs == <<"v", "u", "e", "j", "s">>
Str_vue == <<"v", "u", "e">>
Str_angularjs == <<"a", "n", "g", "u", "l", "a", "r", "j", "s">>
Str_angular == <<"a", "n", "g", "u", "l", "a", "r">>

(* MatchingService.normalizeSkillName; the empty string stands for an      *)
(* absent name too, both give ''                                           *)
normalizeSkillName(skillName) ==
    IF skillName = <<>> THEN <<>>
    ELSE LET lowered  == toLowerCase(skillName)
             stripped == SelectSeq(lowered, NotSeparator)
             a        == ReplaceAtEnd(stripped, Str_js, Str_javascript)
             b        == ReplaceFirst(a, Str_reactjs, Str_react)
         IN  ReplaceFirst(b, Str_nodejs, Str_node)

(* JDIntelligenceService.normalizeSkillName *)
jdNormalizeSkillName(skillName) ==
    IF skillName = <<>> THEN <<>>
    ELSE LET lowered  == toLowerCase(skillName)
             stripped == SelectSeq(lowered, NotSeparator)
             a        == ReplaceAtEnd(stripped, Str_js, Str_javascript)
             b        == ReplaceAtStart(a, Str_js, Str_javascript)
             c        == ReplaceFirst(b, Str_reactjs, Str_react)
             d        == ReplaceFirst(c, Str_nodejs, Str_node)
             e        == ReplaceFirst(d, Str_vuejs, Str_vue)
         IN  ReplaceFirst(e, Str_angularjs, Str_angular)

(* ResumeIntelligenceService.normalizeSkillName *)
resumeNormalizeSkillName(skillName) ==
    IF skillName = <<>> THEN <<>>
    ELSE LET lowered  == toLowerCase(skillName)
             stripped == SelectSeq(lowered, NotSeparator)
             a        == ReplaceAtEnd(stripped, Str_js, Str_javascript)
             b        == ReplaceAtStart(a, Str_js, Str_javascript)
             c        == ReplaceFirst(b, Str_reactjs, Str_react)
             d        == ReplaceFirst(c, Str_nodejs, Str_node)
             e        == ReplaceFirst(d, Str_vuejs, Str_vue)
         IN  ReplaceFirst(e, Str_angularjs, Str_angular)

(* JDIntelligenceService.enrichAnalysis on one skill: importance 0 stands  *)
(* for a skill that carries none                                           *)
enrichSkill(name, importance) ==
    [name |-> name, normalized |-> jdNormalizeSkillName(name),
     importance |-> importance]

----------------------------------------------------------------------------
(* The scorers of MatchingService.                                         *)

(* hasSkill looking for the required name inside the candidate's tokens     *)
(* only                                                                    *)
hasSkillOneWay(candidateSkills, skillName) ==
    LET normalized == normalizeSkillName(skillName)
    IN  \/ normalized \in candidateSkills
        \/ \E candidateSkill \in candidateSkills :
              includes(candidateSkill, normalized)

(* MatchingService.hasSkill *)
hasSkill(candidateSkills, skillName) ==
    LET normalized == normalizeSkillName(skillName)
    IN  \/ normalized \in candidateSkills
        \/ \E candidateSkill \in candidateSkills :
              \/ includes(candidateSkill, normalized)
              \/ includes(normalized, candidateSkill)

(* skill.normalized || skill.name *)
SkillKey(skill) == IF skill.normalized # <<>> THEN skill.normalized ELSE skill.name

(* skill.importance || dflt *)
Importance(skill, dflt) == IF skill.importance # 0 THEN skill.importance ELSE dflt

RECURSIVE SkillsMax(_, _)
SkillsMax(skills, dflt) ==
    IF skills = <<>> THEN 0
    ELSE Importance(Head(skills), dflt) + SkillsMax(Tail(skills), dflt)

RECURSIVE SkillsHit(_, _, _)
SkillsHit(skills, candidateSkills, dflt) ==
    IF skills = <<>> THEN 0
    ELSE (IF hasSkill(candidateSkills, SkillKey(Head(skills)))
          THEN Importance(Head(skills), dflt) ELSE 0)
         + SkillsHit(Tail(skills), candidateSkills, dflt)

(* maxScore > 0 ? score / maxScore : 1 *)
MatchRate(score, maxScore) ==
    IF maxScore > 0 THEN FDivInt(FInt(score), maxScore) ELSE FInt(1)

DefaultRequiredImportance == 3
DefaultPreferredImportance == 2

(* MatchingService.calculateSkillsScore; candidateSkills is the union of   *)
(* resume._computed.skill_set and technology_set                           *)
calculateSkillsScore(jd, candidateSkills) ==
    LET requiredMatchRate ==
            MatchRate(SkillsHit(jd.required_skills, candidateSkills,
                                DefaultRequiredImportance),
                      SkillsMax(jd.required_skills, DefaultRequiredImportance))
        preferredMatchRate ==
            MatchRate(SkillsHit(jd.preferred_skills, candidateSkills,
                                DefaultPreferredImportance),
                      SkillsMax(jd.preferred_skills, DefaultPreferredImportance))
        combinedScore ==
            FMul(FAdd(FMul(requiredMatchRate, FDec(7, 10)),
                      FMul(preferredMatchRate, FDec(3, 10))),
                 FInt(100))
    IN  MathRound(combinedScore)

(* ResumeIntelligenceService.enrichAnalysis: total_experience_years        *)
totalExperienceYears(totalMonths) ==
    FDivInt(FInt(MathRound(FMul(FDivInt(FInt(totalMonths), 12), FInt(10)))), 10)

(* d of the required domains that some candidate domain contains or is     *)
(* contained in, case-insensitively                                        *)
DomainMatches(d, candidateDomains) ==
    \E i \in DOMAIN candidateDomains :
        \/ includes(toLowerCase(candidateDomains[i]), toLowerCase(d))
        \/ includes(toLowerCase(d), toLowerCase(candidateDomains[i]))

MatchedDomains(requiredDomains, candidateDomains) ==
    SelectSeq(requiredDomains, LAMBDA d : DomainMatches(d, candidateDomains))

(* MatchingService.calculateExperienceScore; experience.has_max is FALSE   *)
(* for a max_years of null or undefined; min_years and max_years integers  *)
calculateExperienceScore(experience, candidateYears, candidateDomains) ==
    LET requiredYears == experience.min_years
        maxYears      == experience.max_years
        maxTruthy     == experience.has_max /\ maxYears # 0
        yearsScore    ==
            IF FGeq(candidateYears, FInt(requiredYears))
            THEN IF maxTruthy /\ FGt(candidateYears, FInt(maxYears + 3))
                 THEN FSub(FInt(100),
                           FMin(FInt(20),
                                FMul(FSub(FSub(candidateYears, FInt(maxYears)),
                                          FInt(3)),
                                     FInt(5))))
                 ELSE FInt(100)
            ELSE FInt(MathRound(FMul(FDivInt(candidateYears, requiredYears),
                                     FInt(100))))
        requiredDomains == experience.required_domains
        domainBonus   ==
            IF Len(requiredDomains) > 0
            THEN FMul(FDivInt(FInt(Len(MatchedDomains(requiredDomains,
                                                       candidateDomains))),
                              Len(requiredDomains)),
                      FInt(10))
            ELSE FInt(0)
        rounded == MathRound(FAdd(yearsScore, domainBonus))
    IN  IF rounded > 100 THEN 100 ELSE rounded

(* t of a project's tokens that some required-skill token contains or is   *)
(* contained in                                                            *)
TechMatches(t, requiredSkillsNormalized) ==
    \E i \in DOMAIN requiredSkillsNormalized :
        \/ includes(t, requiredSkillsNormalized[i])
        \/ includes(requiredSkillsNormalized[i], t)

ProjectTechs(project) == [i \in 1..Len(project) |-> normalizeSkillName(project[i])]

MatchedTechs(project, requiredSkillsNormalized) ==
    SelectSeq(ProjectTechs(project),
              LAMBDA t : TechMatches(t, requiredSkillsNormalized))

MaxOf(a, b) == IF a > b THEN a ELSE b

(* the loop of calculateProjectsScore: relevantProjects and totalRelevance *)
RECURSIVE ProjectsLoop(_, _, _)
ProjectsLoop(projects, requiredSkillsNormalized, acc) ==
    IF projects = <<>> THEN acc
    ELSE LET matched == Len(MatchedTechs(Head(projects), requiredSkillsNormalized))
             next    ==
                 IF matched > 0
                 THEN [relevantProjects |-> acc.relevantProjects + 1,
                       totalRelevance |->
                           FAdd(acc.totalRelevance,
                                FDivInt(FInt(matched),
                                        MaxOf(Len(Head(projects)), 1)))]
                 ELSE acc
         IN  ProjectsLoop(Tail(projects), requiredSkillsNormalized, next)

(* MatchingService.calculateProjectsScore; a project is the sequence of    *)
(* its technology names                                                    *)
calculateProjectsScore(jd, projects) ==
    IF Len(projects) = 0 THEN 50
    ELSE LET requiredSkillsNormalized ==
                 [i \in 1..Len(jd.required_skills) |->
                     normalizeSkillName(SkillKey(jd.required_skills[i]))]
             loop == ProjectsLoop(projects, requiredSkillsNormalized,
                                  [relevantProjects |-> 0,
                                   totalRelevance |-> FInt(0)])
             projectScore ==
                 IF loop.relevantProjects > 0
                 THEN FAdd(FInt(60),
                           FMin(FInt(40),
                                FMul(FDivInt(loop.totalRelevance, Len(projects)),
                                     FInt(100))))
                 ELSE FInt(40)
         IN  MathRound(projectScore)

degreeRanking ==
    [phd |-> 5, master |-> 4, bachelor |-> 3, associate |-> 2,
     certification |-> 1, high_school |-> 0, none |-> 0, unknown |-> 1]

(* the keys degreeRanking inherits from Object.prototype: degreeRanking[k]  *)
(* is the prototype itself for __proto__ and a built-in function for the   *)
(* others, truthy and not a number.  They stand in the order of the strings *)
(* these values convert to: '[object Object]', then 'function Object() {   *)
(* [native code] }' of constructor, then 'function k() { [native code] }'  *)
InheritedKeys ==
    <<"__proto__", "constructor", "__defineGetter__", "__defineSetter__",
      "__lookupGetter__", "__lookupSetter__", "hasOwnProperty",
      "isPrototypeOf", "propertyIsEnumerable", "toLocaleString", "toString",
      "valueOf">>

(* the value of an inherited key: below every number, and above the value  *)
(* of a key whose string comes first                                       *)
InheritedValue(key) ==
    (0 - 3000) + (CHOOSE i \in DOMAIN InheritedKeys : InheritedKeys[i] = key)

(* typeof value === 'number' for the values read from degreeRanking *)
IsNumber(value) == value >= 0

(* the number NaN *)
NaN == 0 - 4000

(* degreeRanking[degree] || dflt *)
RankOr(degree, dflt) ==
    IF \E i \in DOMAIN InheritedKeys : InheritedKeys[i] = degree
    THEN InheritedValue(degree)
    ELSE IF degree \in DOMAIN degreeRanking /\ degreeRanking[degree] # 0
    THEN degreeRanking[degree] ELSE dflt

(* a >= b on the values read from degreeRanking: two numbers by size, two  *)
(* inherited values by their strings, and a number against an inherited    *)
(* value is a comparison with NaN, false                                   *)
RankGeq(a, b) == IsNumber(a) = IsNumber(b) /\ a >= b

(* a || b on degree names, "" standing for an absent one *)
DegreeOr(a, b) == IF a # "" THEN a ELSE b

(* some required field contains, or is contained in, some candidate field  *)
hasFieldMatch(requiredFields, candidateFields) ==
    \E i \in DOMAIN requiredFields : \E j \in DOMAIN candidateFields :
        \/ includes(candidateFields[j], requiredFields[i])
        \/ includes(requiredFields[i], candidateFields[j])

(* MatchingService.calculateEducationScore; education is the jd's, fields  *)
(* the field (or '' when it has none) of each entry of resume.education    *)
calculateEducationScore(education, highestDegree, fields) ==
    LET requiredDegree  == DegreeOr(education.min_degree, "none")
        preferredDegree == DegreeOr(education.preferred_degree, requiredDegree)
        candidateDegree == DegreeOr(highestDegree, "unknown")
        requiredRank    == RankOr(requiredDegree, 0)
        preferredRank   == RankOr(preferredDegree, requiredRank)
        candidateRank   == RankOr(candidateDegree, 0)
        degreeScore     ==
            IF RankGeq(candidateRank, preferredRank) THEN 100
            ELSE IF RankGeq(candidateRank, requiredRank) THEN 80
            ELSE IF ~IsNumber(candidateRank) \/ ~IsNumber(requiredRank) THEN NaN
            ELSE MathRound(FMul(FDivInt(FInt(candidateRank),
                                        MaxOf(requiredRank, 1)),
                                FInt(70)))
        requiredFields  ==
            [i \in 1..Len(education.required_fields) |->
                toLowerCase(education.required_fields[i])]
        candidateFields == [j \in 1..Len(fields) |-> toLowerCase(fields[j])]
        bonus == Len(requiredFields) > 0
                 /\ hasFieldMatch(requiredFields, candidateFields)
    IN  IF degreeScore = NaN THEN NaN
        ELSE IF bonus
        THEN (IF degreeScore + 10 > 100 THEN 100 ELSE degreeScore + 10)
        ELSE degreeScore

(* config.scoring.weights *)
WeightSkills == FDec(50, 100)
WeightExperience == FDec(25, 100)
WeightProjects == FDec(15, 100)
WeightEducation == FDec(10, 100)

(* the weighted total of MatchingService.calculateMatch *)
totalScore(skillsScore, experienceScore, projectsScore, educationScore) ==
    IF NaN \in {skillsScore, experienceScore, projectsScore, educationScore}
    THEN NaN
    ELSE
    MathRound(FAdd(FAdd(FAdd(FMul(FInt(skillsScore), WeightSkills),
                             FMul(FInt(experienceScore), WeightExperience)),
                        FMul(FInt(projectsScore), WeightProjects)),
                   FMul(FInt(educationScore), WeightEducation)))

NoMatchScores ==
    [total |-> 0, skills |-> 0, experience |-> 0, projects |-> 0,
     education |-> 0]

(* MatchingService.calculateMatch: the scores of a job description and a   *)
(* resume                                                                  *)
calculateMatch(jd, resume) ==
    LET skills     == calculateSkillsScore(jd, resume.skills)
        experience == calculateExperienceScore(
                          jd.experience,
                          totalExperienceYears(resume.total_months),
                          resume.domains)
        projects   == calculateProjectsScore(jd, resume.projects)
        education  == calculateEducationScore(jd.education,
                                              resume.highest_degree,
                                              resume.fields)
    IN  [total |-> totalScore(skills, experience, projects, education),
         skills |-> skills, experience |-> experience,
         projects |-> projects, education |-> education]

(* ---- the explanation of a match ---- *)

(* how a call of perplexityClient.complete ends: with the parsed answer,   *)
(* or with a throw of validateConfig, of fetch, on a response that is not  *)
(* ok, on an answer without choices, or of parseJsonResponse               *)
CollaboratorOutcomes ==
    {"answer", "no api key", "request error", "response not ok", "no choices",
     "unparseable"}

(* the explanation the collaborator wrote *)
CollaboratorExplanation ==
    [summary |-> [text |-> "collaborator", total |-> 0],
     strengths |-> <<"strength">>, gaps |-> <<"gap">>,
     recommendation |-> "strong_hire"]

NoExplanation ==
    [summary |-> [text |-> "", total |-> 0], strengths |-> <<>>, gaps |-> <<>>,
     recommendation |-> ""]

(* PerplexityClient.complete *)
complete(outcome) ==
    IF outcome = "answer"
    THEN [thrown |-> FALSE, value |-> CollaboratorExplanation]
    ELSE [thrown |-> TRUE, value |-> NoExplanation]

(* generateExplanation without its catch *)
generateExplanationUncaught(scores, outcome) ==
    LET explanation == complete(outcome)
    IN  [thrown |-> explanation.thrown, value |-> explanation.value]

(* MatchingService.generateExplanation: the collaborator's explanation, or *)
(* on a throw `Candidate scored ${totalScore}/100 ...`, no strengths, no   *)
(* gaps and hire from 70 on, maybe below                                   *)
generateExplanation(scores, outcome) ==
    LET explanation == complete(outcome)
    IN  IF ~explanation.thrown
        THEN [thrown |-> FALSE, value |-> explanation.value]
        ELSE [thrown |-> FALSE,
              value |-> [summary |-> [text |-> "Candidate scored /100",
                                      total |-> scores.total],
                         strengths |-> <<>>, gaps |-> <<>>,
                         recommendation |-> IF scores.total >= 70 THEN "hire"
                                            ELSE "maybe"]]

(* calculateMatch from the await of generateExplanation on: the scores    *)
(* and the explanation are returned                                        *)
ReturnExplained(scores, outcome) ==
    LET explanation == generateExplanation(scores, outcome)
    IN  IF explanation.thrown
        THEN [thrown |-> TRUE, scores |-> NoMatchScores,
              explanation |-> NoExplanation]
        ELSE [thrown |-> FALSE, scores |-> scores,
              explanation |-> explanation.value]

(* MatchingService.calculateMatch with its explanation: the scores are     *)
(* computed, once, and then generateExplanation is awaited                 *)
calculateMatchExplained(jd, resume, outcome) ==
    CHOOSE result \in {ReturnExplained(scores, outcome) :
                          scores \in {calculateMatch(jd, resume)}} : TRUE

----------------------------------------------------------------------------
(* The classifier of RankingService.                                       *)

defaultThreshold == 70
borderlineRange == 10

(* The thresholds of the requests are integers; undefined and null are     *)
(* coded by two integers no request carries as a number.                   *)
Undefined == 0 - 2000
Null == 0 - 1000

(* ToNumber of a number or null, as the comparison and arithmetic          *)
(* operators apply it                                                      *)
ToNumber(v) == IF v = Null THEN 0 ELSE v

(* classifyCandidate with the threshold itself left out of the shortlist   *)
classifyCandidateAbove(score, threshold) ==
    IF score > ToNumber(threshold) THEN "shortlisted"
    ELSE IF score >= ToNumber(threshold) - borderlineRange THEN "borderline"
    ELSE "rejected"

(* RankingService.classifyCandidate; an undefined threshold takes the     *)
(* default                                                                 *)
classifyCandidate(score, threshold) ==
    LET t == IF threshold = Undefined THEN defaultThreshold
             ELSE ToNumber(threshold)
    IN  IF score >= t THEN "shortlisted"
        ELSE IF score >= t - borderlineRange THEN "borderline"
        ELSE "rejected"

----------------------------------------------------------------------------
(* The store and the requests in flight.                                   *)
(*                                                                         *)
(* Every await of a handler ends a step: between two steps of one request  *)
(* any step of another request may run.                                    *)

VARIABLES
    jobs,       \* the jobs collection: JobIds -> job document
    cands,      \* the candidates collection: CandIds -> candidate document
    nextCand,   \* the next candidate _id to hand out
    upd,        \* the updateThreshold requests in flight
    upl,        \* the uploadResumes requests in flight
    del,        \* the deleteJob or deleteCandidate request in flight
    call        \* a call of a pure function of the engine, or a reading
                \* request in flight: its input and result

sysvars == <<jobs, cands, nextCand, upd, upl, del>>
vars == <<jobs, cands, nextCand, upd, upl, del, call>>

MaxCandidates == 3
MaxUpdates == 2
MaxUploads == 1
MaxFiles == 2

JobIds == {1}
CandIds == 1..MaxCandidates
UpdateReqs == 1..MaxUpdates
UploadReqs == 1..MaxUploads

(* the thresholds a request body may carry: none, null, and numbers in and *)
(* out of [0, 100]                                                         *)
ThresholdInputs == {Undefined, Null, 0 - 5, 50, 70, 101}

(* the scores of calculateMatch for the given dimension scores *)
MatchResult(s, e, p, d) ==
    [total |-> totalScore(s, e, p, d), skills |-> s, experience |-> e,
     projects |-> p, education |-> d]

(* the results calculateMatch may give a resume, of totals 45 and 65 *)
MatchResults == {MatchResult(30, 60, 50, 75), MatchResult(70, 60, 50, 75)}
Totals == {m.total : m \in MatchResults}

NoScores == [total |-> 0, skills |-> 0, experience |-> 0, projects |-> 0,
             education |-> 0]

NoJob == [phase |-> "absent", threshold |-> 0, totalCandidates |-> 0,
          shortlistedCount |-> 0]

(* new Candidate({jobId, ...}): the schema's defaults *)
NewCandidate(j) ==
    [exists |-> TRUE, jobId |-> j, scoreTotal |-> 0, scoreSkills |-> 0,
     scoreExperience |-> 0, scoreProjects |-> 0, scoreEducation |-> 0,
     status |-> "pending", classification |-> "null"]

NoCandidate ==
    [exists |-> FALSE, jobId |-> 0, scoreTotal |-> 0, scoreSkills |-> 0,
     scoreExperience |-> 0, scoreProjects |-> 0, scoreEducation |-> 0,
     status |-> "pending", classification |-> "null"]

(* a candidate document after CandidateModel.updateAnalysis *)
Analysed(candidate, scores, classification) ==
    [candidate EXCEPT !.scoreTotal = scores.total,
                      !.scoreSkills = scores.skills,
                      !.scoreExperience = scores.experience,
                      !.scoreProjects = scores.projects,
                      !.scoreEducation = scores.education,
                      !.classification = classification,
                      !.status = "processed"]

IdleUpdate ==
    [pc |-> "idle", job |-> 0, threshold |-> 0, snapshot |-> <<>>, i |-> 0,
     shortlisted |-> 0, borderline |-> 0, rejected |-> 0, status |-> 0]

IdleUpload ==
    [pc |-> "idle", job |-> 0, threshold |-> 0, uploaded |-> 0, files |-> 0,
     candidate |-> 0, scores |-> NoScores, classification |-> "null",
     results |-> <<>>, failed |-> 0, total |-> 0, shortlisted |-> 0,
     status |-> 0, stored |-> 0, kept |-> <<>>, counted |-> {}, cleanup |-> 0]

(* no DELETE request is being served; pending holds the counts of         *)
(* getStats that have not been read yet                                    *)
IdleDelete ==
    [pc |-> "idle", kind |-> "none", job |-> 0, candidate |-> 0, status |-> 0,
     total |-> 0, shortlisted |-> 0, pending |-> {}]

NoCall == [fn |-> "none"]
NewCall(fn, arg, ret) == [fn |-> fn, arg |-> arg, done |-> FALSE, ret |-> ret]
Return(value) == call' = [call EXCEPT !.done = TRUE, !.ret = value]
Called(fn) == call.fn = fn /\ call.done

SysInit ==
    /\ jobs = [j \in JobIds |-> NoJob]
    /\ cands = [c \in CandIds |-> NoCandidate]
    /\ nextCand = 1
    /\ upd = [u \in UpdateReqs |-> IdleUpdate]
    /\ upl = [p \in UploadReqs |-> IdleUpload]
    /\ del = IdleDelete

(* JobModel.findById: the job is in the collection *)
JobFound(j) == jobs[j].phase \notin {"absent", "deleted"}

(* Candidate.find({ jobId }): the ids of the job's candidates *)
CandidatesOf(j) == {c \in CandIds : cands[c].exists /\ cands[c].jobId = j}

(* .sort({ scoreTotal: -1, createdAt: 1 }): c comes before d *)
SortsBefore(c, d) ==
    \/ cands[c].scoreTotal > cands[d].scoreTotal
    \/ cands[c].scoreTotal = cands[d].scoreTotal /\ c < d

(* CandidateModel.findByJobId: the job's candidates as read now, sorted by *)
(* score descending and creation ascending                                 *)
findByJobId(j) ==
    LET ids == CandidatesOf(j)
        pos(c) == 1 + Cardinality({d \in ids : SortsBefore(d, c)})
    IN  [k \in 1..Cardinality(ids) |->
            LET c == CHOOSE c \in ids : pos(c) = k
            IN  [id |-> c, score_total |-> cands[c].scoreTotal,
                 classification |-> cands[c].classification]]

(* what the loop of applyThreshold reads of the rows of findByJobId *)
SweepRows(rows) ==
    [k \in 1..Len(rows) |-> [id |-> rows[k].id, score_total |-> rows[k].score_total]]

(* CandidateModel.findById: the document as read now *)
findById(c) ==
    [found |-> c \in CandIds /\ cands[c].exists, id |-> c,
     job_id |-> IF c \in CandIds THEN cands[c].jobId ELSE 0,
     score_total |-> IF c \in CandIds THEN cands[c].scoreTotal ELSE 0,
     score_skills |-> IF c \in CandIds THEN cands[c].scoreSkills ELSE 0,
     score_experience |-> IF c \in CandIds THEN cands[c].scoreExperience ELSE 0,
     score_projects |-> IF c \in CandIds THEN cands[c].scoreProjects ELSE 0,
     score_education |-> IF c \in CandIds THEN cands[c].scoreEducation ELSE 0]

(* no document: what findById gives for an id that is not stored *)
NoDocument ==
    [found |-> FALSE, id |-> 0, job_id |-> 0, score_total |-> 0,
     score_skills |-> 0, score_experience |-> 0, score_projects |-> 0,
     score_education |-> 0]

(* CandidateModel.getStats: countDocuments of the job and of a class *)
CountClass(j, class) ==
    Cardinality({c \in CandidatesOf(j) : cands[c].classification = class})

(* ---- RankingService: ranking and comparison ---- *)

(* rankCandidates with the comparator scoreA - scoreB *)
RECURSIVE InsertAscending(_, _)
InsertAscending(sorted, c) ==
    IF sorted = <<>> THEN <<c>>
    ELSE IF c.score_total - Head(sorted).score_total < 0
         THEN <<c>> \o sorted
         ELSE <<Head(sorted)>> \o InsertAscending(Tail(sorted), c)

(* Array.prototype.sort with the comparator scoreB - scoreA: c goes before *)
(* the first row the comparator puts after it, the sort being stable       *)
RECURSIVE InsertRanked(_, _)
InsertRanked(sorted, c) ==
    IF sorted = <<>> THEN <<c>>
    ELSE IF Head(sorted).score_total - c.score_total < 0
         THEN <<c>> \o sorted
         ELSE <<Head(sorted)>> \o InsertRanked(Tail(sorted), c)

RECURSIVE SortedAscending(_)
SortedAscending(candidates) ==
    IF candidates = <<>> THEN <<>>
    ELSE InsertAscending(
             SortedAscending(SubSeq(candidates, 1, Len(candidates) - 1)),
             candidates[Len(candidates)])

RECURSIVE SortedByScore(_)
SortedByScore(candidates) ==
    IF candidates = <<>> THEN <<>>
    ELSE InsertRanked(SortedByScore(SubSeq(candidates, 1, Len(candidates) - 1)),
                      candidates[Len(candidates)])

(* the rank position added to each row *)
WithRanks(sorted) ==
    [k \in 1..Len(sorted) |->
        [id |-> sorted[k].id, score_total |-> sorted[k].score_total,
         classification |-> sorted[k].classification, rank |-> k]]

(* rankCandidates sorting by ascending score *)
rankCandidatesAscending(candidates) == WithRanks(SortedAscending(candidates))

(* RankingService.rankCandidates *)
rankCandidates(candidates) == WithRanks(SortedByScore(candidates))

(* the filters of getRankedResults; "" and Undefined: no such filter *)
Filtered(candidates, filters) ==
    LET byClass == IF filters.classification # ""
                   THEN SelectSeq(candidates,
                            LAMBDA c : c.classification = filters.classification)
                   ELSE candidates
        byMin   == IF filters.minScore # Undefined
                   THEN SelectSeq(byClass,
                            LAMBDA c : c.score_total >= filters.minScore)
                   ELSE byClass
    IN  IF filters.maxScore # Undefined
        THEN SelectSeq(byMin, LAMBDA c : c.score_total <= filters.maxScore)
        ELSE byMin

RECURSIVE SumOfScores(_)
SumOfScores(candidates) ==
    IF candidates = <<>> THEN 0
    ELSE Head(candidates).score_total + SumOfScores(Tail(candidates))

(* the counts of CandidateModel.getStats *)
AllCounts == {"total", "shortlisted", "borderline", "rejected"}
NoCounts == [k \in AllCounts |-> 0]

(* RankingService.getRankedResults on what its awaited reads gave: rows is *)
(* the list of findByJobId, counts the counts of getStats                  *)
getRankedResults(rows, counts, threshold, filters) ==
    LET candidates == Filtered(rows, filters)
        scores == {candidates[k].score_total : k \in DOMAIN candidates}
    IN  [candidates |-> rankCandidates(candidates),
         stats |->
            [total |-> counts["total"],
             shortlisted |-> counts["shortlisted"],
             borderline |-> counts["borderline"],
             rejected |-> counts["rejected"],
             threshold |-> threshold,
             averageScore |->
                 IF Len(candidates) > 0
                 THEN MathRound(FDivInt(FInt(SumOfScores(candidates)),
                                        Len(candidates)))
                 ELSE 0,
             highestScore |->
                 IF Len(candidates) > 0
                 THEN CHOOSE x \in scores : \A y \in scores : y <= x ELSE 0,
             lowestScore |->
                 IF Len(candidates) > 0
                 THEN CHOOSE x \in scores : \A y \in scores : x <= y ELSE 0]]

NoRanking == [candidates |-> <<>>, stats |-> NoScores]

ScoreOf(c, dim) ==
    CASE dim = "skills" -> c.score_skills
      [] dim = "experience" -> c.score_experience
      [] dim = "projects" -> c.score_projects
      [] dim = "education" -> c.score_education
      [] dim = "total" -> c.score_total

(* validCandidates.reduce((best, c) => c[dim] >= best[dim] ? c : best) *)
RECURSIVE LastBest(_, _, _)
LastBest(best, rest, dim) ==
    IF rest = <<>> THEN best
    ELSE LastBest(IF ScoreOf(Head(rest), dim) >= ScoreOf(best, dim)
                  THEN Head(rest) ELSE best,
                  Tail(rest), dim)

(* validCandidates.reduce((best, c) =>                                     *)
(*     (c[dim] || 0) > (best[dim] || 0) ? c : best)                        *)
RECURSIVE Best(_, _, _)
Best(best, rest, dim) ==
    IF rest = <<>> THEN best
    ELSE Best(IF ScoreOf(Head(rest), dim) > ScoreOf(best, dim)
              THEN Head(rest) ELSE best,
              Tail(rest), dim)

(* the winner of a dimension, ties going to the later candidate *)
WinnerLast(validCandidates, dim) ==
    LastBest(Head(validCandidates), Tail(validCandidates), dim).id

(* the winner of a dimension among the valid candidates, two at least *)
Winner(validCandidates, dim) ==
    Best(Head(validCandidates), Tail(validCandidates), dim).id

NoComparison ==
    [candidates |-> <<>>, skills |-> 0, experience |-> 0, projects |-> 0,
     education |-> 0, overallWinner |-> 0]

(* compareCandidates comparing a single valid candidate too *)
serviceCompareFromOne(candidates) ==
    LET validCandidates == SelectSeq(candidates, LAMBDA c : c.found)
    IN  IF Len(validCandidates) < 1
        THEN [thrown |-> TRUE, comparison |-> NoComparison]
        ELSE [thrown |-> FALSE,
              comparison |->
                 [candidates |-> [k \in 1..Len(validCandidates) |->
                                     validCandidates[k].id],
                  skills |-> Winner(validCandidates, "skills"),
                  experience |-> Winner(validCandidates, "experience"),
                  projects |-> Winner(validCandidates, "projects"),
                  education |-> Winner(validCandidates, "education"),
                  overallWinner |-> Winner(validCandidates, "total")]]

(* RankingService.compareCandidates on the documents its reads gave, one   *)
(* for each of candidateIds and in their order, found FALSE for an id      *)
(* without document; thrown stands for the Error 'Need at least 2 valid    *)
(* candidates to compare'                                                  *)
serviceCompare(candidates) ==
    LET validCandidates == SelectSeq(candidates, LAMBDA c : c.found)
    IN  IF Len(validCandidates) < 2
        THEN [thrown |-> TRUE, comparison |-> NoComparison]
        ELSE [thrown |-> FALSE,
              comparison |->
                 [candidates |-> [k \in 1..Len(validCandidates) |->
                                     validCandidates[k].id],
                  skills |-> Winner(validCandidates, "skills"),
                  experience |-> Winner(validCandidates, "experience"),
                  projects |-> Winner(validCandidates, "projects"),
                  education |-> Winner(validCandidates, "education"),
                  overallWinner |-> Winner(validCandidates, "total")]]

(* ---- POST /api/jobs: JobController.createJob ---- *)

(* jobSchema: the default of threshold *)
jobThresholdDefault == 70

(* JobModel.create: the schema's defaults, the description not analysed yet *)
CreateJobRecord(j) ==
    /\ jobs[j].phase = "absent"
    /\ jobs' = [jobs EXCEPT ![j] =
                   [phase |-> "analyzing", threshold |-> jobThresholdDefault,
                    totalCandidates |-> 0, shortlistedCount |-> 0]]
    /\ UNCHANGED <<cands, nextCand, upd, upl, call, del>>

(* jdIntelligenceService.analyze, then JobModel.updateStructuredJD; when   *)
(* analyze throws, the job stays as it is, without structured_jd           *)
CreateJobAnalyzed(j) ==
    /\ jobs[j].phase = "analyzing"
    /\ jobs' = [jobs EXCEPT ![j].phase = "analyzed"]
    /\ UNCHANGED <<cands, nextCand, upd, upl, call, del>>

(* ---- PUT /api/jobs/:id/threshold: JobController.updateThreshold ---- *)

(* the lowest free slot takes the next request *)
FreeUpdate(u) ==
    upd[u].pc = "idle" /\ \A v \in UpdateReqs : v < u => upd[v].pc # "idle"

(* the request arrives: a threshold outside [0, 100] is answered 400;      *)
(* JobModel.findById, answered 404 when there is no such job               *)
UpdateStart(u, j, t) ==
    /\ FreeUpdate(u)
    /\ LET status == IF t = Undefined \/ ToNumber(t) < 0 \/ ToNumber(t) > 100
                     THEN 400
                     ELSE IF ~JobFound(j) THEN 404
                     ELSE 0
       IN  upd' = [upd EXCEPT ![u] =
                      [IdleUpdate EXCEPT
                          !.pc = IF status = 0 THEN "write" ELSE "done",
                          !.status = status,
                          !.job = IF status = 0 THEN j ELSE 0,
                          !.threshold = IF status = 0 THEN t ELSE 0]]
    /\ UNCHANGED <<jobs, cands, nextCand, upl, call, del>>

(* JobModel.updateThreshold *)
UpdateWrite(u) ==
    /\ upd[u].pc = "write"
    /\ jobs' = [jobs EXCEPT ![upd[u].job].threshold =
                   IF JobFound(upd[u].job) THEN upd[u].threshold ELSE @]
    /\ upd' = [upd EXCEPT ![u].pc = "load"]
    /\ UNCHANGED <<cands, nextCand, upl, call, del>>

(* applyThreshold: CandidateModel.findByJobId *)
UpdateLoad(u) ==
    /\ upd[u].pc = "load"
    /\ upd' = [upd EXCEPT ![u].snapshot = SweepRows(findByJobId(upd[u].job)),
                          ![u].i = 1,
                          ![u].pc = "sweep"]
    /\ UNCHANGED <<jobs, cands, nextCand, upl, call, del>>

(* one turn of the loop without CandidateModel.updateClassification *)
UpdateSweepUnwritten(u) ==
    /\ upd[u].pc = "sweep"
    /\ upd[u].i <= Len(upd[u].snapshot)
    /\ LET row   == upd[u].snapshot[upd[u].i]
           class == classifyCandidate(row.score_total, upd[u].threshold)
       IN  upd' = [upd EXCEPT
                  ![u].i = @ + 1,
                  ![u].shortlisted = IF class = "shortlisted" THEN @ + 1 ELSE @,
                  ![u].borderline = IF class = "borderline" THEN @ + 1 ELSE @,
                  ![u].rejected = IF class = "rejected" THEN @ + 1 ELSE @]
    /\ UNCHANGED <<jobs, cands, nextCand, upl, call, del>>

(* applyThreshold: one turn of the loop, classifyCandidate on the score    *)
(* read by findByJobId, then CandidateModel.updateClassification           *)
UpdateSweep(u) ==
    /\ upd[u].pc = "sweep"
    /\ upd[u].i <= Len(upd[u].snapshot)
    /\ LET row   == upd[u].snapshot[upd[u].i]
           class == classifyCandidate(row.score_total, upd[u].threshold)
       IN  /\ cands' = [cands EXCEPT ![row.id].classification =
                           IF cands[row.id].exists THEN class ELSE @]
           /\ upd' = [upd EXCEPT
                  ![u].i = @ + 1,
                  ![u].shortlisted = IF class = "shortlisted" THEN @ + 1 ELSE @,
                  ![u].borderline = IF class = "borderline" THEN @ + 1 ELSE @,
                  ![u].rejected = IF class = "rejected" THEN @ + 1 ELSE @]
    /\ UNCHANGED <<jobs, nextCand, upl, call, del>>

(* the loop is over: JobModel.updateCounts(id, stats.total, stats.shortlisted), *)
(* then the 200 answer                                                     *)
UpdateCounts(u) ==
    /\ upd[u].pc = "sweep"
    /\ upd[u].i > Len(upd[u].snapshot)
    /\ jobs' = [jobs EXCEPT ![upd[u].job] =
                   IF JobFound(upd[u].job)
                   THEN [@ EXCEPT !.totalCandidates = Len(upd[u].snapshot),
                                  !.shortlistedCount = upd[u].shortlisted]
                   ELSE @]
    /\ upd' = [upd EXCEPT ![u].pc = "done", ![u].status = 200,
                          ![u].i = Len(upd[u].snapshot), ![u].snapshot = <<>>]
    /\ UNCHANGED <<cands, nextCand, upl, call, del>>

(* ---- the catch of updateThreshold: a command is rejected by the store ---- *)

(* the update is answered 500, the store being as the steps before left it *)
UpdateFails(u) ==
    /\ upd' = [upd EXCEPT ![u].pc = "done", ![u].status = 500,
                          ![u].snapshot = <<>>]
    /\ UNCHANGED <<jobs, cands, nextCand, upl, call, del>>

(* JobModel.findById of a request with a valid threshold is rejected *)
UpdateStartFail(u, j, t) ==
    /\ FreeUpdate(u)
    /\ t # Undefined /\ ToNumber(t) >= 0 /\ ToNumber(t) <= 100
    /\ upd' = [upd EXCEPT ![u] = [IdleUpdate EXCEPT !.pc = "done", !.status = 500,
                                                    !.job = j]]
    /\ UNCHANGED <<jobs, cands, nextCand, upl, call, del>>

(* JobModel.updateThreshold is rejected *)
UpdateWriteFail(u) == upd[u].pc = "write" /\ UpdateFails(u)

(* CandidateModel.findByJobId is rejected *)
UpdateLoadFail(u) == upd[u].pc = "load" /\ UpdateFails(u)

(* CandidateModel.updateClassification is rejected in a turn of the loop *)
UpdateSweepFail(u) ==
    upd[u].pc = "sweep" /\ upd[u].i <= Len(upd[u].snapshot) /\ UpdateFails(u)

(* JobModel.updateCounts is rejected *)
UpdateCountsFail(u) ==
    upd[u].pc = "sweep" /\ upd[u].i > Len(upd[u].snapshot) /\ UpdateFails(u)

(* the answer has been sent; the slot serves the next request *)
UpdateRespond(u) ==
    /\ upd[u].pc = "done"
    /\ upd' = [upd EXCEPT ![u] = IdleUpdate]
    /\ UNCHANGED <<jobs, cands, nextCand, upl, call, del>>

(* ---- POST /api/jobs/:jobId/candidates: CandidateController.uploadResumes ---- *)

(* the lowest free slot takes the next request *)
FreeUpload(p) ==
    upl[p].pc = "idle" /\ \A q \in UploadReqs : q < p => upl[q].pc # "idle"

(* the request arrives with n files, which the upload middleware has       *)
(* stored in the upload directory: JobModel.findById, answered 404         *)
(* without the job, 400 without its analysis or without files; the job     *)
(* read here, its threshold with it, serves the whole request              *)
UploadStart(p, j, n) ==
    /\ FreeUpload(p)
    /\ LET status == IF ~JobFound(j) THEN 404
                     ELSE IF jobs[j].phase # "analyzed" THEN 400
                     ELSE IF n = 0 THEN 400
                     ELSE 0
       IN  upl' = [upl EXCEPT ![p] =
                      [IdleUpload EXCEPT
                          !.pc = IF status = 0 THEN "file" ELSE "done",
                          !.status = status,
                          !.job = IF status = 0 THEN j ELSE 0,
                          !.uploaded = IF status = 0 THEN n ELSE 0,
                          !.files = IF status = 0 THEN n ELSE 0,
                          !.stored = n,
                          !.kept = [i \in 1..n |-> TRUE],
                          !.threshold = IF status = 0 THEN jobs[j].threshold
                                        ELSE 0]]
    /\ UNCHANGED <<jobs, cands, nextCand, upd, call, del>>

(* processResume up to CandidateModel.create: the file is validated, read  *)
(* and analysed, and a pending candidate is stored                         *)
ProcessCreate(p) ==
    /\ upl[p].pc = "file"
    /\ upl[p].files > 0
    /\ nextCand \in CandIds
    /\ cands' = [cands EXCEPT ![nextCand] = NewCandidate(upl[p].job)]
    /\ nextCand' = nextCand + 1
    /\ upl' = [upl EXCEPT ![p].pc = "match", ![p].candidate = nextCand]
    /\ UNCHANGED <<jobs, upd, call, del>>

(* a catch that ends the request: the files left are dropped *)
FileAborts(request) ==
    [request EXCEPT !.pc = "file", !.files = 0, !.failed = @ + 1,
                    !.stored = @ - 1,
                    !.kept[request.uploaded - request.files + 1] = FALSE,
                    !.candidate = 0, !.scores = NoScores,
                    !.classification = "null"]

(* the catch of the loop of uploadResumes: the file goes to errors, is     *)
(* deleted from the upload directory, and the loop takes the next file     *)
FileFailed(request) ==
    [request EXCEPT !.pc = "file", !.files = @ - 1, !.failed = @ + 1,
                    !.stored = @ - 1,
                    !.kept[request.uploaded - request.files + 1] = FALSE,
                    !.candidate = 0, !.scores = NoScores,
                    !.classification = "null"]

(* processResume throws before CandidateModel.create (validateFile,        *)
(* extractText or analyze)                                                 *)
ProcessFail(p) ==
    /\ upl[p].pc = "file"
    /\ upl[p].files > 0
    /\ upl' = [upl EXCEPT ![p] = FileFailed(@)]
    /\ UNCHANGED <<jobs, cands, nextCand, upd, call, del>>

(* matchingService.calculateMatch answers, perplexityClient.complete       *)
(* having settled; rankingService.classifyCandidate runs on its total and  *)
(* the threshold of the job read by UploadStart                            *)
ProcessMatch(p, match) ==
    /\ upl[p].pc = "match"
    /\ upl' = [upl EXCEPT
                  ![p].pc = "save",
                  ![p].scores = match,
                  ![p].classification =
                      classifyCandidate(match.total, upl[p].threshold)]
    /\ UNCHANGED <<jobs, cands, nextCand, upd, call, del>>

(* matchingService.calculateMatch throws: the candidate stays as created   *)
ProcessMatchFail(p) ==
    /\ upl[p].pc = "match"
    /\ upl' = [upl EXCEPT ![p] = FileFailed(@)]
    /\ UNCHANGED <<jobs, cands, nextCand, upd, call, del>>

(* CandidateModel.updateAnalysis, and the result joins results *)
ProcessSave(p) ==
    /\ upl[p].pc = "save"
    /\ LET c == upl[p].candidate
       IN  cands' = [cands EXCEPT ![c] =
                        IF cands[c].exists
                        THEN Analysed(@, upl[p].scores, upl[p].classification)
                        ELSE @]
    /\ upl' = [upl EXCEPT ![p].pc = "file", ![p].files = @ - 1,
                          ![p].results = Append(@, upl[p].candidate),
                          ![p].candidate = 0, ![p].scores = NoScores,
                          ![p].classification = "null"]
    /\ UNCHANGED <<jobs, nextCand, upd, call, del>>

(* CandidateModel.updateAnalysis rejects: the candidate stays as created   *)
ProcessSaveFail(p) ==
    /\ upl[p].pc = "save"
    /\ upl' = [upl EXCEPT ![p] = FileFailed(@)]
    /\ UNCHANGED <<jobs, cands, nextCand, upd, call, del>>

(* the loop of uploadResumes is over *)
LoopOver(p) == upl[p].pc = "file" /\ upl[p].files = 0

(* the counts of getStats that uploadResumes and deleteCandidate use; the  *)
(* counts of the borderline and of the rejected are read as well and       *)
(* dropped                                                                 *)
CountsUsed == {"total", "shortlisted"}

(* Candidate.countDocuments({ jobId }) and                                 *)
(* Candidate.countDocuments({ jobId, classification }) as read now         *)
countDocuments(j, k) ==
    IF k = "total" THEN Cardinality(CandidatesOf(j)) ELSE CountClass(j, k)

(* CandidateModel.getStats: one of the counts of its Promise.all is read,  *)
(* in any order; with the last of them getStats returns                    *)
UploadStatsRead(p, k) ==
    /\ LoopOver(p)
    /\ k \in CountsUsed \ upl[p].counted
    /\ LET n == countDocuments(upl[p].job, k)
           last == upl[p].counted \cup {k} = CountsUsed
       IN  upl' = [upl EXCEPT
                      ![p].total = IF k = "total" THEN n ELSE @,
                      ![p].shortlisted = IF k = "shortlisted" THEN n ELSE @,
                      ![p].counted = IF last THEN {} ELSE @ \cup {k},
                      ![p].pc = IF last THEN "counts" ELSE @]
    /\ UNCHANGED <<jobs, cands, nextCand, upd, call, del>>

(* the outer catch of uploadResumes is entered: every file of the request  *)
(* is to be deleted                                                        *)
UploadCaught(request) ==
    [request EXCEPT !.pc = IF request.uploaded = 0 THEN "done" ELSE "abort",
                    !.status = 500,
                    !.cleanup = request.uploaded,
                    !.counted = {}, !.total = 0, !.shortlisted = 0]

(* JobModel.findById of the arriving request is rejected by the store *)
UploadStartFail(p, n) ==
    /\ FreeUpload(p)
    /\ upl' = [upl EXCEPT ![p] =
                  UploadCaught([IdleUpload EXCEPT
                                   !.uploaded = n, !.files = n, !.stored = n,
                                   !.kept = [i \in 1..n |-> TRUE]])]
    /\ UNCHANGED <<jobs, cands, nextCand, upd, call, del>>

(* a countDocuments of getStats is rejected by the store *)
UploadStatsFail(p) ==
    /\ LoopOver(p)
    /\ upl' = [upl EXCEPT ![p] = UploadCaught(@)]
    /\ UNCHANGED <<jobs, cands, nextCand, upd, call, del>>

(* JobModel.updateCounts; without processed files the 201 answer follows,  *)
(* with processed and failed                                               *)
UploadCounts(p) ==
    /\ upl[p].pc = "counts"
    /\ jobs' = [jobs EXCEPT ![upl[p].job] =
                   IF JobFound(upl[p].job)
                   THEN [@ EXCEPT !.totalCandidates = upl[p].total,
                                  !.shortlistedCount = upl[p].shortlisted]
                   ELSE @]
    /\ upl' = [upl EXCEPT
                  ![p].pc = IF Len(upl[p].results) = 0 THEN "done" ELSE "cleanup",
                  ![p].status = IF Len(upl[p].results) = 0 THEN 201 ELSE 0,
                  ![p].cleanup = Len(upl[p].results),
                  ![p].total = 0, ![p].shortlisted = 0]
    /\ UNCHANGED <<cands, nextCand, upd, call, del>>

(* JobModel.updateCounts is rejected by the store *)
UploadCountsFail(p) ==
    /\ upl[p].pc = "counts"
    /\ upl' = [upl EXCEPT ![p] = UploadCaught(@)]
    /\ UNCHANGED <<jobs, cands, nextCand, upd, call, del>>

(* one processed file is deleted from the upload directory; after the last *)
(* the 201 answer, with processed and failed                               *)
UploadCleanup(p) ==
    /\ upl[p].pc = "cleanup"
    /\ upl' = [upl EXCEPT
                  ![p].stored = @ - 1,
                  ![p].cleanup = @ - 1,
                  ![p].pc = IF upl[p].cleanup = 1 THEN "done" ELSE @,
                  ![p].status = IF upl[p].cleanup = 1 THEN 201 ELSE @]
    /\ UNCHANGED <<jobs, cands, nextCand, upd, call, del>>

(* the outer catch: deleteFile on the next file of the request, which is   *)
(* in the upload directory unless the loop deleted it; after the last the  *)
(* 500 answer                                                              *)
UploadAbort(p) ==
    /\ upl[p].pc = "abort"
    /\ LET i == upl[p].uploaded - upl[p].cleanup + 1
       IN  upl' = [upl EXCEPT
                      ![p].stored = IF upl[p].kept[i] THEN @ - 1 ELSE @,
                      ![p].kept[i] = FALSE,
                      ![p].cleanup = @ - 1,
                      ![p].pc = IF upl[p].cleanup = 1 THEN "done" ELSE @]
    /\ UNCHANGED <<jobs, cands, nextCand, upd, call, del>>

(* the answer has been sent; the slot serves the next request *)
UploadRespond(p) ==
    /\ upl[p].pc = "done"
    /\ upl' = [upl EXCEPT ![p] = IdleUpload]
    /\ UNCHANGED <<jobs, cands, nextCand, upd, call, del>>

(* ---- DELETE /api/jobs/:id: JobController.deleteJob ---- *)

DeleteJobArrive(j) ==
    /\ del.pc = "idle"
    /\ del' = [IdleDelete EXCEPT !.kind = "job", !.pc = "find", !.job = j]
    /\ UNCHANGED <<jobs, cands, nextCand, upd, upl, call>>

(* JobModel.findById, answered 404 when there is no such job *)
DeleteJobFind ==
    /\ del.kind = "job" /\ del.pc = "find"
    /\ del' = [del EXCEPT
                  !.pc = IF JobFound(del.job) THEN "hook" ELSE "done",
                  !.status = IF JobFound(del.job) THEN 0 ELSE 404]
    /\ UNCHANGED <<jobs, cands, nextCand, upd, upl, call>>

(* Candidate.deleteMany({ jobId }): the store without the candidates of    *)
(* the job                                                                 *)
deleteMany(jobId) ==
    [c \in CandIds |->
        IF cands[c].exists /\ cands[c].jobId = jobId
        THEN NoCandidate ELSE cands[c]]

(* CandidateModel.deleteByJobId; no route, controller or service calls it, *)
(* so no next-state relation has it                                        *)
DeleteByJobId(j) ==
    /\ cands' = deleteMany(j)
    /\ UNCHANGED <<jobs, nextCand, upd, upl, call, del>>

(* JobModel.delete, the pre findOneAndDelete hook:                         *)
(* Candidate.deleteMany({ jobId }).  The hook is added to the schema of    *)
(* the Job model after mongoose.model('Job', jobSchema) compiled it;       *)
(* whether a hook added then runs is up to the Mongoose of the build, and  *)
(* its documentation has it not run.  This step is the hook running;       *)
(* DeleteJobDocument taken in its place is the hook not running.           *)
DeleteJobHook ==
    /\ del.kind = "job" /\ del.pc = "hook"
    /\ cands' = deleteMany(del.job)
    /\ del' = [del EXCEPT !.pc = "document"]
    /\ UNCHANGED <<jobs, nextCand, upd, upl, call>>

(* JobModel.delete: Job.findByIdAndDelete, then the 200 answer; straight   *)
(* after findById when the hook does not run                               *)
DeleteJobDocument ==
    /\ del.kind = "job" /\ del.pc \in {"hook", "document"}
    /\ jobs' = [jobs EXCEPT ![del.job] =
                   IF JobFound(del.job)
                   THEN [NoJob EXCEPT !.phase = "deleted"] ELSE @]
    /\ del' = [del EXCEPT !.pc = "done", !.status = 200]
    /\ UNCHANGED <<cands, nextCand, upd, upl, call>>

(* the catch of deleteJob: a command is rejected by the store, the answer  *)
(* is 500 and what the steps before did stays                              *)
DeleteJobFail ==
    /\ del.kind = "job" /\ del.pc \in {"find", "hook", "document"}
    /\ del' = [del EXCEPT !.pc = "done", !.status = 500]
    /\ UNCHANGED <<jobs, cands, nextCand, upd, upl, call>>

(* ---- DELETE /api/jobs/:jobId/candidates/:candidateId:                ---- *)
(* ---- CandidateController.deleteCandidate                             ---- *)

DeleteCandidateArrive(j, c) ==
    /\ del.pc = "idle"
    /\ del' = [IdleDelete EXCEPT !.kind = "candidate", !.pc = "find",
                                 !.job = j, !.candidate = c]
    /\ UNCHANGED <<jobs, cands, nextCand, upd, upl, call>>

(* CandidateModel.findById, answered 404 when there is no such candidate   *)
(* or it is of another job                                                 *)
DeleteCandidateFind ==
    /\ del.kind = "candidate" /\ del.pc = "find"
    /\ LET candidate == findById(del.candidate)
           refused == ~candidate.found \/ candidate.job_id # del.job
       IN  del' = [del EXCEPT !.pc = IF refused THEN "done" ELSE "document",
                              !.status = IF refused THEN 404 ELSE 0]
    /\ UNCHANGED <<jobs, cands, nextCand, upd, upl, call>>

(* CandidateModel.delete; getStats is called *)
DeleteCandidateDocument ==
    /\ del.kind = "candidate" /\ del.pc = "document"
    /\ cands' = [cands EXCEPT ![del.candidate] = NoCandidate]
    /\ del' = [del EXCEPT !.pc = "stats", !.pending = CountsUsed]
    /\ UNCHANGED <<jobs, nextCand, upd, upl, call>>

(* CandidateModel.getStats: one of the counts of its Promise.all is read,  *)
(* in any order; with the last of them getStats returns                    *)
DeleteCandidateStatsRead(k) ==
    /\ del.kind = "candidate" /\ del.pc = "stats"
    /\ k \in del.pending
    /\ LET n == countDocuments(del.job, k)
       IN  del' = [del EXCEPT
                      !.total = IF k = "total" THEN n ELSE @,
                      !.shortlisted = IF k = "shortlisted" THEN n ELSE @,
                      !.pending = @ \ {k},
                      !.pc = IF del.pending = {k} THEN "counts" ELSE @]
    /\ UNCHANGED <<jobs, cands, nextCand, upd, upl, call>>

(* JobModel.updateCounts, then the 200 answer *)
DeleteCandidateCounts ==
    /\ del.kind = "candidate" /\ del.pc = "counts"
    /\ jobs' = [jobs EXCEPT ![del.job] =
                   IF JobFound(del.job)
                   THEN [@ EXCEPT !.totalCandidates = del.total,
                                  !.shortlistedCount = del.shortlisted]
                   ELSE @]
    /\ del' = [del EXCEPT !.pc = "done", !.status = 200]
    /\ UNCHANGED <<cands, nextCand, upd, upl, call>>

(* the catch of deleteCandidate: a command is rejected by the store, the   *)
(* answer is 500 and what the steps before did stays                       *)
DeleteCandidateFail ==
    /\ del.kind = "candidate"
    /\ del.pc \in {"find", "document", "stats", "counts"}
    /\ del' = [del EXCEPT !.pc = "done", !.status = 500, !.pending = {}]
    /\ UNCHANGED <<jobs, cands, nextCand, upd, upl, call>>

(* the answer of a DELETE has been sent *)
DeleteRespond ==
    /\ del.pc = "done"
    /\ del' = IdleDelete
    /\ UNCHANGED <<jobs, cands, nextCand, upd, upl, call>>

(* the steps of the deleteJob being served *)
DeleteJobProceeds ==
    \/ DeleteJobFind
    \/ DeleteJobHook
    \/ DeleteJobDocument
    \/ DeleteJobFail

(* the steps of the deleteCandidate being served *)
DeleteCandidateProceeds ==
    \/ DeleteCandidateFind
    \/ DeleteCandidateDocument
    \/ \E k \in CountsUsed : DeleteCandidateStatsRead(k)
    \/ DeleteCandidateCounts
    \/ DeleteCandidateFail

(* a request for an upload arrives, and the store answers or rejects the  *)
(* first command                                                           *)
UploadArrives ==
    \/ \E p \in UploadReqs, j \in JobIds, n \in 0..MaxFiles : UploadStart(p, j, n)
    \/ \E p \in UploadReqs, n \in 0..MaxFiles : UploadStartFail(p, n)

(* the steps of the uploads being served *)
UploadProceeds ==
    \/ \E p \in UploadReqs : ProcessCreate(p)
    \/ \E p \in UploadReqs : ProcessFail(p)
    \/ \E p \in UploadReqs, match \in MatchResults : ProcessMatch(p, match)
    \/ \E p \in UploadReqs : ProcessMatchFail(p)
    \/ \E p \in UploadReqs : ProcessSave(p)
    \/ \E p \in UploadReqs : ProcessSaveFail(p)
    \/ \E p \in UploadReqs, k \in CountsUsed : UploadStatsRead(p, k)
    \/ \E p \in UploadReqs : UploadStatsFail(p)
    \/ \E p \in UploadReqs : UploadCounts(p)
    \/ \E p \in UploadReqs : UploadCountsFail(p)
    \/ \E p \in UploadReqs : UploadCleanup(p)
    \/ \E p \in UploadReqs : UploadAbort(p)
    \/ \E p \in UploadReqs : UploadRespond(p)

Init == SysInit /\ call = NoCall

(* ---- threshold updates on a job whose candidates are scored ---- *)

(* the store after a job was created and analysed and an upload of n files *)
(* was processed with no other request in between                          *)
Uploaded(n, results) ==
    /\ jobs = [j \in JobIds |->
                  [phase |-> "analyzed", threshold |-> jobThresholdDefault,
                   totalCandidates |-> n,
                   shortlistedCount |->
                       Cardinality({c \in 1..n :
                           classifyCandidate(results[c].total, jobThresholdDefault)
                               = "shortlisted"})]]
    /\ cands = [c \in CandIds |->
                   IF c <= n
                   THEN Analysed(NewCandidate(1), results[c],
                                 classifyCandidate(results[c].total,
                                                   jobThresholdDefault))
                   ELSE NoCandidate]
    /\ nextCand = n + 1
    /\ upd = [u \in UpdateReqs |-> IdleUpdate]
    /\ upl = [p \in UploadReqs |-> IdleUpload]
    /\ del = IdleDelete

InitClassified ==
    /\ \E n \in 1..MaxCandidates : \E results \in [1..n -> MatchResults] :
          Uploaded(n, results)
    /\ call = NoCall

NextReclassify ==
    \/ \E u \in UpdateReqs, j \in JobIds, t \in ThresholdInputs : UpdateStart(u, j, t)
    \/ \E u \in UpdateReqs : UpdateWrite(u)
    \/ \E u \in UpdateReqs : UpdateLoad(u)
    \/ \E u \in UpdateReqs : UpdateSweep(u)
    \/ \E u \in UpdateReqs : UpdateCounts(u)
    \/ \E u \in UpdateReqs : UpdateRespond(u)

SpecReclassify == InitClassified /\ [][NextReclassify]_vars

(* ---- uploads, with one threshold update at a time ---- *)

OneUpdate == {1}

NextScoring ==
    \/ \E j \in JobIds : CreateJobRecord(j)
    \/ \E j \in JobIds : CreateJobAnalyzed(j)
    \/ \E u \in OneUpdate, j \in JobIds, t \in ThresholdInputs : UpdateStart(u, j, t)
    \/ \E u \in OneUpdate : UpdateWrite(u)
    \/ \E u \in OneUpdate : UpdateLoad(u)
    \/ \E u \in OneUpdate : UpdateSweep(u)
    \/ \E u \in OneUpdate : UpdateCounts(u)
    \/ \E u \in OneUpdate : UpdateRespond(u)
    \/ UploadArrives
    \/ UploadProceeds

SpecScoring == Init /\ [][NextScoring]_vars

----------------------------------------------------------------------------
(* Calls of the engine's pure functions: Init draws the input, the one     *)
(* step applies the function.  The store stays as constructed.             *)

SeqsUpTo(S, n) == UNION {[1..k -> S] : k \in 0..n}
SubsetsUpTo(S, n) == {T \in SUBSET S : Cardinality(T) <= n}


Name_React == <<"R", "e", "a", "c", "t">>
Name_ReactNative == <<"R", "e", "a", "c", "t", " ", "N", "a", "t", "i", "v", "e">>
Name_NodeJs == <<"N", "o", "d", "e", ".", "j", "s">>
Name_JS == <<"J", "S">>
Name_Java == <<"J", "a", "v", "a">>
Name_JavaScript == <<"J", "a", "v", "a", "S", "c", "r", "i", "p", "t">>
Name_SQL == <<"S", "Q", "L">>
Name_Go == <<"G", "o">>
Str_java == <<"j", "a", "v", "a">>
Str_sql == <<"s", "q", "l">>
Str_reactnative == <<"r", "e", "a", "c", "t", "n", "a", "t", "i", "v", "e">>
Name_FinTech == <<"F", "i", "n", "T", "e", "c", "h">>
Name_Health == <<"H", "e", "a", "l", "t", "h">>
Name_fintechStartup ==
    <<"f", "i", "n", "t", "e", "c", "h", " ", "s", "t", "a", "r", "t", "u", "p">>
Name_ComputerScience ==
    <<"C", "o", "m", "p", "u", "t", "e", "r", " ", "S", "c", "i", "e", "n", "c", "e">>
Name_science == <<"s", "c", "i", "e", "n", "c", "e">>
Name_Physics == <<"P", "h", "y", "s", "i", "c", "s">>
(* names with a capital E acute, U+00C9, and its small letter, U+00E9 *)
Name_ENERGIE == <<"U+00C9", "N", "E", "R", "G", "I", "E">>
Name_energie == <<"U+00E9", "n", "e", "r", "g", "i", "e">>
Name_Economie == <<"U+00C9", "c", "o", "n", "o", "m", "i", "e">>
Name_economie == <<"U+00E9", "c", "o", "n", "o", "m", "i", "e">>

(* ---- classifyCandidate ---- *)

Scores == 0..100

InitClassify ==
    /\ SysInit
    /\ call \in {NewCall("classifyCandidate", [score |-> x, threshold |-> t], "null") :
                    x \in Scores, t \in Scores}

ApplyClassify ==
    /\ call.fn = "classifyCandidate" /\ ~call.done
    /\ Return(classifyCandidate(call.arg.score, call.arg.threshold))
    /\ UNCHANGED sysvars

SpecClassify == InitClassify /\ [][ApplyClassify]_vars

(* ---- the weighted total of calculateMatch ---- *)

(* dimension scores the four scorers can give, the ends of the range and   *)
(* values between                                                          *)
DimensionScores == {0, 1, 35, 36, 47, 50, 57, 62, 80, 100}

InitTotal ==
    /\ SysInit
    /\ call \in {NewCall("totalScore",
                         [skills |-> a, experience |-> b, projects |-> c,
                          education |-> d], 0) :
                    a \in DimensionScores, b \in DimensionScores,
                    c \in DimensionScores, d \in DimensionScores}

ApplyTotal ==
    /\ call.fn = "totalScore" /\ ~call.done
    /\ Return(totalScore(call.arg.skills, call.arg.experience,
                         call.arg.projects, call.arg.education))
    /\ UNCHANGED sysvars

SpecTotal == InitTotal /\ [][ApplyTotal]_vars

(* ---- hasSkill ---- *)

MaxTokens == 2

TokenPool == {Str_java, Str_javascript, Str_react, Str_reactnative, Str_sql, <<>>}
RequiredNames ==
    {Name_Java, Name_JavaScript, Name_JS, Name_React, Name_ReactNative,
     Name_NodeJs, Name_SQL, Name_Go, <<>>}

InitHasSkill ==
    /\ SysInit
    /\ call \in {NewCall("hasSkill", [candidateSkills |-> cs, skillName |-> n], FALSE) :
                    cs \in SubsetsUpTo(TokenPool, MaxTokens), n \in RequiredNames}

ApplyHasSkill ==
    /\ call.fn = "hasSkill" /\ ~call.done
    /\ Return(hasSkill(call.arg.candidateSkills, call.arg.skillName))
    /\ UNCHANGED sysvars

SpecHasSkill == InitHasSkill /\ [][ApplyHasSkill]_vars

(* ---- calculateSkillsScore ---- *)

MaxSkills == 2

(* skills as enrichAnalysis leaves them; importance 0: none given *)
SkillPool ==
    {enrichSkill(Name_React, 5), enrichSkill(Name_NodeJs, 0),
     enrichSkill(Name_JS, 1), enrichSkill(Name_SQL, 3)}
SkillLists == SeqsUpTo(SkillPool, MaxSkills)
CandidateSkillSets == {{}, {Str_react}, {Str_javascript}, {Str_node, Str_sql}}

InitSkills ==
    /\ SysInit
    /\ call \in {NewCall("calculateSkillsScore",
                         [jd |-> [required_skills |-> r, preferred_skills |-> q],
                          candidateSkills |-> cs], 0) :
                    r \in SkillLists, q \in SkillLists, cs \in CandidateSkillSets}

ApplySkills ==
    /\ call.fn = "calculateSkillsScore" /\ ~call.done
    /\ Return(calculateSkillsScore(call.arg.jd, call.arg.candidateSkills))
    /\ UNCHANGED sysvars

SpecSkills == InitSkills /\ [][ApplySkills]_vars

(* ---- calculateExperienceScore ---- *)

(* years in tenths, as total_experience_years carries them *)
YearsTenths == {0, 15, 23, 40, 50, 65, 72, 80, 120}
ExperienceRequirements ==
    {[min_years |-> m, has_max |-> h, max_years |-> x, required_domains |-> d] :
        m \in {0, 4, 5}, h \in BOOLEAN, x \in {0, 4, 5, 7},
        d \in {<<>>, <<Name_FinTech>>, <<Name_FinTech, Name_Health>>,
               <<Name_ENERGIE>>}}
CandidateDomains == {<<>>, <<Name_fintechStartup>>, <<Name_energie>>}

InitExperience ==
    /\ SysInit
    /\ call \in {NewCall("calculateExperienceScore",
                         [experience |-> e, years10 |-> y, domains |-> d], 0) :
                    e \in {e \in ExperienceRequirements :
                              /\ e.has_max => e.max_years >= e.min_years
                              /\ ~e.has_max => e.max_years = 0},
                    y \in YearsTenths, d \in CandidateDomains}

ApplyExperience ==
    /\ call.fn = "calculateExperienceScore" /\ ~call.done
    /\ Return(calculateExperienceScore(call.arg.experience,
                                       FDec(call.arg.years10, 10),
                                       call.arg.domains))
    /\ UNCHANGED sysvars

SpecExperience == InitExperience /\ [][ApplyExperience]_vars

(* ---- calculateProjectsScore ---- *)

MaxProjects == 3

ProjectPool ==
    {<<>>, <<Name_React>>, <<Name_Go>>, <<Name_React, Name_Go>>,
     <<Name_Go, Name_SQL, Name_JavaScript>>, <<Name_Go, Name_Go, Name_Go, Name_JS>>}
ProjectLists == SeqsUpTo(ProjectPool, MaxProjects)

(* a project of some technologies the job requires and some it does not *)
Technologies(required, others) ==
    [i \in 1..(required + others) |->
        IF i <= required THEN Name_React ELSE Name_Go]

(* five projects of seven or eight technologies, of relevances 1/7, 7/8,   *)
(* 2/7, 2/7 and 2/7 for a job that requires React                          *)
LongProjectLists ==
    {<<Technologies(1, 6), Technologies(7, 1), Technologies(2, 5),
       Technologies(2, 5), Technologies(2, 5)>>}
RequiredSkillLists ==
    {<<>>, <<enrichSkill(Name_React, 5)>>,
     <<enrichSkill(Name_Java, 3), enrichSkill(Name_NodeJs, 0)>>}

InitProjects ==
    /\ SysInit
    /\ call \in {NewCall("calculateProjectsScore",
                         [jd |-> [required_skills |-> r], projects |-> ps], 0) :
                    r \in RequiredSkillLists,
                    ps \in ProjectLists \cup LongProjectLists}

ApplyProjects ==
    /\ call.fn = "calculateProjectsScore" /\ ~call.done
    /\ Return(calculateProjectsScore(call.arg.jd, call.arg.projects))
    /\ UNCHANGED sysvars

SpecProjects == InitProjects /\ [][ApplyProjects]_vars

(* ---- calculateEducationScore ---- *)

(* the degree levels, and "" for none given *)
DegreeLevels ==
    {"phd", "master", "bachelor", "associate", "certification", "high_school",
     "none", "unknown", ""}
(* a name the degree scale does not hold, that of a key degreeRanking      *)
(* inherits                                                                *)
OffScaleDegrees == {"constructor"}
(* the degree is absent or a level of the scale *)
OnScale(degree) == degree = "" \/ degree \in DOMAIN degreeRanking
RequiredDegrees == (DegreeLevels \ {"unknown"}) \cup OffScaleDegrees
RequiredFieldLists == {<<>>, <<Name_ComputerScience>>, <<Name_Economie>>}
(* the field of each education entry, <<>> for an entry without one *)
CandidateFieldLists ==
    {<<>>, <<Name_science>>, <<Name_Physics>>, << <<>> >>,
     <<Name_Physics, <<>> >>, <<Name_economie>>}

InitEducation ==
    /\ SysInit
    /\ call \in {NewCall("calculateEducationScore",
                         [education |-> [min_degree |-> r, preferred_degree |-> q,
                                         required_fields |-> rf],
                          highest_degree |-> c, fields |-> cf], 0) :
                    r \in RequiredDegrees, q \in RequiredDegrees,
                    rf \in RequiredFieldLists, c \in DegreeLevels,
                    cf \in CandidateFieldLists}

ApplyEducation ==
    /\ call.fn = "calculateEducationScore" /\ ~call.done
    /\ Return(calculateEducationScore(call.arg.education, call.arg.highest_degree,
                                      call.arg.fields))
    /\ UNCHANGED sysvars

SpecEducation == InitEducation /\ [][ApplyEducation]_vars

(* ---- calculateMatch: the four scores and the total ---- *)

JobDescriptions ==
    {[required_skills |-> r, preferred_skills |-> q, experience |-> e,
      education |-> d] :
        r \in {<<>>, <<enrichSkill(Name_React, 5), enrichSkill(Name_NodeJs, 0)>>},
        q \in {<<>>, <<enrichSkill(Name_JS, 1), enrichSkill(Name_SQL, 3)>>},
        e \in {[min_years |-> 0, has_max |-> FALSE, max_years |-> 0,
                required_domains |-> <<>>],
               [min_years |-> 0, has_max |-> TRUE, max_years |-> 0,
                required_domains |-> <<Name_FinTech>>],
               [min_years |-> 4, has_max |-> TRUE, max_years |-> 5,
                required_domains |-> <<Name_FinTech, Name_Health>>]},
        d \in {[min_degree |-> "", preferred_degree |-> "",
                required_fields |-> <<>>],
               [min_degree |-> "bachelor", preferred_degree |-> "master",
                required_fields |-> <<Name_ComputerScience>>]}}

Resumes ==
    {[skills |-> cs, total_months |-> m, domains |-> dm, projects |-> ps,
      highest_degree |-> hd, fields |-> f] :
        cs \in {{}, {Str_javascript}, {Str_react, Str_node, Str_sql}},
        m \in {0, 28, 120},
        dm \in {<<>>, <<Name_fintechStartup>>},
        ps \in {<<>>, <<<<Name_Go>>>>, <<<<Name_React, Name_Go>>, <<>>>>},
        hd \in {"", "associate", "phd"},
        f \in {<<>>, << <<>> >>, <<Name_science>>}}

(* a job description whose minimum degree is off the scale *)
OffScaleJobDescriptions ==
    {[required_skills |-> <<enrichSkill(Name_React, 5)>>,
      preferred_skills |-> <<>>,
      experience |-> [min_years |-> 0, has_max |-> FALSE, max_years |-> 0,
                      required_domains |-> <<>>],
      education |-> [min_degree |-> d, preferred_degree |-> "",
                     required_fields |-> <<>>]] : d \in OffScaleDegrees}

InitMatch ==
    /\ SysInit
    /\ call \in {NewCall("calculateMatch", [jd |-> jd, resume |-> r],
                         [total |-> 0, skills |-> 0, experience |-> 0,
                          projects |-> 0, education |-> 0]) :
                    jd \in JobDescriptions \cup OffScaleJobDescriptions,
                    r \in Resumes}

ApplyMatch ==
    /\ call.fn = "calculateMatch" /\ ~call.done
    /\ Return(calculateMatch(call.arg.jd, call.arg.resume))
    /\ UNCHANGED sysvars

SpecMatch == InitMatch /\ [][ApplyMatch]_vars

(* ---- calculateMatch and the explanation collaborator ---- *)

(* the resumes without domains and fields of study *)
ExplainedResumes ==
    {[skills |-> cs, total_months |-> m, domains |-> <<>>, projects |-> ps,
      highest_degree |-> hd, fields |-> <<>>] :
        cs \in {{}, {Str_javascript}, {Str_react, Str_node, Str_sql}},
        m \in {0, 28, 120},
        ps \in {<<>>, <<<<Name_Go>>>>, <<<<Name_React, Name_Go>>, <<>>>>},
        hd \in {"", "associate", "phd"}}

InitExplain ==
    /\ SysInit
    /\ call \in {NewCall("calculateMatchExplained",
                         [jd |-> jd, resume |-> r, outcome |-> o],
                         [thrown |-> FALSE, scores |-> NoMatchScores,
                          explanation |-> NoExplanation]) :
                    jd \in JobDescriptions, r \in ExplainedResumes,
                    o \in CollaboratorOutcomes}

ApplyExplain ==
    /\ call.fn = "calculateMatchExplained" /\ ~call.done
    /\ Return(calculateMatchExplained(call.arg.jd, call.arg.resume,
                                      call.arg.outcome))
    /\ UNCHANGED sysvars

SpecExplain == InitExplain /\ [][ApplyExplain]_vars

(* ---- normalizeSkillName of the three services ---- *)

MaxFragments == 3

Name_ReactJS == <<"R", "e", "a", "c", "t", "J", "S">>
Name_Node == <<"N", "o", "d", "e">>
Name_VueJs == <<"V", "u", "e", ".", "j", "s">>
Name_AngularJS == <<"A", "n", "g", "u", "l", "a", "r", "J", "S">>

(* the names are runs of these pieces *)
NameFragments ==
    {Name_React, Name_ReactJS, Name_Node, Name_JS, Name_VueJs, Name_AngularJS,
     <<".">>, <<"x">>, <<"\r", "\n">>, <<"U+00C9">>, <<"U+0130">>}

RECURSIVE Concat(_)
Concat(pieces) == IF pieces = <<>> THEN <<>> ELSE Head(pieces) \o Concat(Tail(pieces))

SkillNames == {Concat(pieces) : pieces \in SeqsUpTo(NameFragments, MaxFragments)}

Services == {"matching", "jd", "resume"}

(* this.normalizeSkillName of the given service *)
NormalizeWith(service, skillName) ==
    CASE service = "matching" -> normalizeSkillName(skillName)
      [] service = "jd" -> jdNormalizeSkillName(skillName)
      [] service = "resume" -> resumeNormalizeSkillName(skillName)

InitNormalize ==
    /\ SysInit
    /\ call \in {NewCall("normalizeSkillName", [service |-> sv, skillName |-> n],
                         [token |-> <<>>, again |-> FALSE, second |-> <<>>]) :
                    sv \in Services, n \in SkillNames}

ApplyNormalize ==
    /\ call.fn = "normalizeSkillName" /\ ~call.done
    /\ Return([call.ret EXCEPT
                  !.token = NormalizeWith(call.arg.service, call.arg.skillName)])
    /\ UNCHANGED sysvars

(* the token is normalised once more *)
ApplyNormalizeAgain ==
    /\ call.fn = "normalizeSkillName" /\ call.done /\ ~call.ret.again
    /\ Return([call.ret EXCEPT
                  !.again = TRUE,
                  !.second = NormalizeWith(call.arg.service, call.ret.token)])
    /\ UNCHANGED sysvars

NextNormalize == ApplyNormalize \/ ApplyNormalizeAgain

SpecNormalize == InitNormalize /\ [][NextNormalize]_vars

----------------------------------------------------------------------------
(* Properties of the pure functions.                                       *)

(* a occurs in b as a run of consecutive characters *)
IsSubstringOf(a, b) ==
    \E i \in 0..(Len(b) - Len(a)) : \A k \in 1..Len(a) : b[i + k] = a[k]

SubstringMatch(a, b) == IsSubstringOf(a, b) \/ IsSubstringOf(b, a)

MinOf(a, b) == IF a < b THEN a ELSE b

(* round(n / d) for integers n >= 0 and d > 0, halves going up *)
RoundDiv(n, d) == (2 * n + d) \div (2 * d)

(* C1: classifyCandidate returns 'shortlisted' when total >= threshold,    *)
(* 'borderline' when threshold - 10 <= total < threshold and 'rejected'    *)
(* otherwise, one label for every input.                                   *)
ClassifyByBands ==
    Called("classifyCandidate") =>
        LET total == call.arg.score
            threshold == call.arg.threshold
        IN  /\ call.ret \in {"shortlisted", "borderline", "rejected"}
            /\ (total >= threshold) => call.ret = "shortlisted"
            /\ (threshold - 10 <= total /\ total < threshold)
                   => call.ret = "borderline"
            /\ (total < threshold - 10) => call.ret = "rejected"

ClassifyBorderlineSeen ==
    /\ Called("classifyCandidate")
    /\ call.arg = [score |-> 65, threshold |-> 70]
    /\ call.ret = "borderline"

(* C4: the total of calculateMatch is round((50*s + 25*e + 15*p + 10*d) /  *)
(* 100) for all dimension scores s, e, p, d in 0..100, an integer in       *)
(* 0..100.                                                                 *)
TotalIsExactWeightedRound ==
    Called("totalScore") =>
        /\ call.ret = RoundDiv(50 * call.arg.skills + 25 * call.arg.experience
                               + 15 * call.arg.projects
                               + 10 * call.arg.education, 100)
        /\ call.ret \in 0..100

(* C5: for every job description and resume within the data model, empty   *)
(* lists, zero experience and absent fields included, the four dimension   *)
(* scores and the total are integers in 0..100.                            *)
ScoresInRange ==
    Called("calculateMatch") =>
        /\ call.ret.skills \in 0..100
        /\ call.ret.experience \in 0..100
        /\ call.ret.projects \in 0..100
        /\ call.ret.education \in 0..100
        /\ call.ret.total \in 0..100

(* C6: calculateSkillsScore is round(100 * (0.7 * requiredRate + 0.3 *     *)
(* preferredRate)), a rate being the importance of the skills the          *)
(* candidate has over the importance of all the list's skills, a missing   *)
(* importance counting 3 (required) or 2 (preferred), an empty list having *)
(* rate 1.                                                                 *)
SkillsIsExactWeightedRate ==
    Called("calculateSkillsScore") =>
        LET jd == call.arg.jd
            cs == call.arg.candidateSkills
            rmax == SkillsMax(jd.required_skills, 3)
            rhit == SkillsHit(jd.required_skills, cs, 3)
            pmax == SkillsMax(jd.preferred_skills, 2)
            phit == SkillsHit(jd.preferred_skills, cs, 2)
            a == IF rmax = 0 THEN 1 ELSE rhit
            b == IF rmax = 0 THEN 1 ELSE rmax
            c == IF pmax = 0 THEN 1 ELSE phit
            d == IF pmax = 0 THEN 1 ELSE pmax
        IN  call.ret = RoundDiv(70 * a * d + 30 * c * b, b * d)

(* C7: calculateExperienceScore is min(100, round(base - penalty + bonus)):*)
(* base 100 when years >= min_years, else round(100 * years / min_years);  *)
(* penalty min(20, (years - max - 3) * 5) exactly when a maximum is given  *)
(* and years > max + 3; bonus 10 times the fraction of the required        *)
(* domains matched.                                                        *)
ExperienceIsBasePenaltyBonus ==
    Called("calculateExperienceScore") =>
        LET e == call.arg.experience
            y10 == call.arg.years10
            base == IF y10 >= 10 * e.min_years THEN 100
                    ELSE RoundDiv(10 * y10, e.min_years)
            penalty2 == IF e.has_max /\ y10 > 10 * e.max_years + 30
                        THEN MinOf(40, y10 - 10 * e.max_years - 30)
                        ELSE 0
            n == IF Len(e.required_domains) = 0 THEN 1 ELSE Len(e.required_domains)
            k == Cardinality({i \in DOMAIN e.required_domains :
                     \E j \in DOMAIN call.arg.domains :
                        SubstringMatch(toLowerCase(e.required_domains[i]),
                                       toLowerCase(call.arg.domains[j]))})
        IN  call.ret = MinOf(100, RoundDiv(2 * n * base - n * penalty2 + 20 * k,
                                           2 * n))

RECURSIVE RelevanceSum(_, _)
(* the sum, as a fraction, of the projects' relevances *)
RelevanceSum(projects, required) ==
    IF projects = <<>> THEN [num |-> 0, den |-> 1]
    ELSE LET p == Head(projects)
             m == Cardinality({i \in DOMAIN p : \E j \in DOMAIN required :
                      SubstringMatch(normalizeSkillName(p[i]), required[j])})
             n == IF Len(p) = 0 THEN 1 ELSE Len(p)
             rest == RelevanceSum(Tail(projects), required)
         IN  [num |-> rest.num * n + m * rest.den, den |-> rest.den * n]

(* C8: calculateProjectsScore is 50 with no projects; otherwise round(60 + *)
(* min(40, 100 * average relevance)) when some project has a technology    *)
(* token that substring-matches a required-skill token, and 40 when none   *)
(* has.                                                                    *)
ProjectsIsAverageRelevance ==
    Called("calculateProjectsScore") =>
        LET projects == call.arg.projects
            skills == call.arg.jd.required_skills
            required == [i \in DOMAIN skills |->
                            normalizeSkillName(SkillKey(skills[i]))]
            sum == RelevanceSum(projects, required)
            d == sum.den * Len(projects)
        IN  call.ret = IF Len(projects) = 0 THEN 50
                       ELSE IF sum.num = 0 THEN 40
                       ELSE RoundDiv(60 * d + MinOf(40 * d, 100 * sum.num), d)

(* C9: calculateEducationScore gives base 100 when the candidate's rank    *)
(* reaches the preferred rank (the required degree standing in only when   *)
(* no preferred degree is given), else 80 when it reaches the required     *)
(* rank, else round(70 * candidateRank / max(requiredRank, 1)), plus 10    *)
(* capped at 100 exactly when a candidate field substring-matches a        *)
(* required field, for all degrees absent or levels of the scale.          *)
EducationIsRankedBase ==
    (/\ Called("calculateEducationScore")
     /\ OnScale(call.arg.education.min_degree)
     /\ OnScale(call.arg.education.preferred_degree)
     /\ OnScale(call.arg.highest_degree)) =>
        LET education == call.arg.education
            requiredRank == IF education.min_degree = "" THEN 0
                            ELSE degreeRanking[education.min_degree]
            preferredRank == IF education.preferred_degree = "" THEN requiredRank
                             ELSE degreeRanking[education.preferred_degree]
            candidateRank == IF call.arg.highest_degree = "" THEN 1
                             ELSE degreeRanking[call.arg.highest_degree]
            base == IF candidateRank >= preferredRank THEN 100
                    ELSE IF candidateRank >= requiredRank THEN 80
                    ELSE RoundDiv(70 * candidateRank, MaxOf(requiredRank, 1))
            fieldMatch ==
                \E i \in DOMAIN education.required_fields :
                    \E j \in DOMAIN call.arg.fields :
                        SubstringMatch(toLowerCase(call.arg.fields[j]),
                                       toLowerCase(education.required_fields[i]))
        IN  call.ret = IF fieldMatch THEN MinOf(100, base + 10) ELSE base

(* C10: hasSkill is true exactly when the candidate's token set holds the  *)
(* normalised required name, or a token is a substring of it, or it is a   *)
(* substring of a token; it is false for an empty token set.               *)
HasSkillIsBidirectionalSubstring ==
    Called("hasSkill") =>
        LET n == normalizeSkillName(call.arg.skillName)
            tokens == call.arg.candidateSkills
        IN  /\ call.ret = (\/ n \in tokens
                           \/ \E t \in tokens : IsSubstringOf(t, n)
                           \/ \E t \in tokens : IsSubstringOf(n, t))
            /\ tokens = {} => call.ret = FALSE

HasSkillJavaInJavaScriptSeen ==
    /\ Called("hasSkill")
    /\ call.arg.candidateSkills = {Str_java}
    /\ call.arg.skillName = Name_JavaScript
    /\ call.ret = TRUE

----------------------------------------------------------------------------
(* Properties of the labels in the store.                                  *)

UpdatesAtRest == \A u \in UpdateReqs : upd[u].pc \in {"idle", "done"}
UploadsAtRest == \A p \in UploadReqs : upl[p].pc \in {"idle", "done"}

(* every classified candidate carries the label of its score under the     *)
(* threshold stored on its job                                             *)
LabelsFollowStoredThreshold ==
    \A c \in CandIds :
        (cands[c].exists /\ cands[c].classification # "null") =>
            cands[c].classification =
                classifyCandidate(cands[c].scoreTotal,
                                  jobs[cands[c].jobId].threshold)

(* C2: once the threshold updates on a job have completed, overlapping     *)
(* ones included, every candidate classified before them carries           *)
(* classify(its total, the job's stored threshold).                        *)
NoStaleLabelAfterUpdates ==
    (UpdatesAtRest /\ \E u \in UpdateReqs : upd[u].status = 200)
        => LabelsFollowStoredThreshold

(* C3: once an upload and a threshold update that overlapped have both     *)
(* completed, every candidate of the job carries classify(total, the job's *)
(* stored threshold).                                                      *)
ScoringSerializedWithUpdate ==
    (UpdatesAtRest /\ UploadsAtRest /\ \E p \in UploadReqs : upl[p].status = 201)
        => LabelsFollowStoredThreshold

----------------------------------------------------------------------------
(* Properties of the normalisers.                                          *)

(* the name lower-cased, without dots, dashes, underscores and whitespace  *)
Reduced(name) == SelectSeq(toLowerCase(name), NotSeparator)

(* C11: normalize lower-cases and strips the name and applies the alias    *)
(* table: a name reducing to 'js' gives 'javascript', 'reactjs' gives      *)
(* 'react', 'nodejs' 'node', 'vuejs' 'vue' and 'angularjs' 'angular'; a    *)
(* name without the letters 'js' gives its reduced form, and the empty     *)
(* name gives the empty token.                                             *)
NormalizeAppliesAliases ==
    Called("normalizeSkillName") =>
        LET r == Reduced(call.arg.skillName)
            token == call.ret.token
        IN  /\ (r = Str_js) => token = Str_javascript
            /\ (r = Str_reactjs) => token = Str_react
            /\ (r = Str_nodejs) => token = Str_node
            /\ (r = Str_vuejs) => token = Str_vue
            /\ (r = Str_angularjs) => token = Str_angular
            /\ (~IsSubstringOf(Str_js, r)) => token = r
            /\ (call.arg.skillName = <<>>) => token = <<>>

(* C12: each normaliser is idempotent: normalising a token again gives the *)
(* same token.                                                             *)
NormalizeIsIdempotent ==
    (Called("normalizeSkillName") /\ call.ret.again) =>
        call.ret.second = call.ret.token

----------------------------------------------------------------------------
(* Reading requests: each awaited read of the store is a step.             *)

(* the results of the stored candidates: totals 45, 65, 65 and 80, with    *)
(* equal and unequal dimension scores                                      *)
StoredResults ==
    MatchResults \cup {MatchResult(60, 80, 50, 75), MatchResult(80, 80, 100, 50)}

(* the stores: no job yet, or a job and its processed candidates *)
InitStored ==
    \/ SysInit
    \/ \E n \in 0..MaxCandidates : \E results \in [1..n -> StoredResults] :
          Uploaded(n, results)

(* the answer of a reading request has been sent *)
ReadRespond ==
    /\ call.fn \in {"getCandidates", "getCandidate", "compareCandidates"}
    /\ call.ret.pc = "done"
    /\ call' = NoCall
    /\ UNCHANGED sysvars

(* ---- GET /api/jobs/:jobId/candidates: CandidateController.getCandidates ---- *)

RankingFilters ==
    [classification : {"", "shortlisted", "rejected"},
     minScore : {Undefined, 50}, maxScore : {Undefined, 70}]

NoAnswer == [status |-> 0, data |-> NoRanking]

(* the request and, once the client has its answer, the same request once  *)
(* more: first and second are the two answers                              *)
GetCandidatesRequests ==
    {NewCall("getCandidates", [job |-> j, filters |-> f],
             [pc |-> "job", round |-> 1, threshold |-> 0, rows |-> <<>>,
              counts |-> NoCounts, pending |-> {},
              first |-> NoAnswer, again |-> FALSE, second |-> NoAnswer]) :
        j \in JobIds, f \in RankingFilters}

GetCandidatesArrive ==
    /\ call = NoCall
    /\ call' \in GetCandidatesRequests
    /\ UNCHANGED sysvars

(* res.json or res.status(404).json: the answer of the round *)
GetCandidatesAnswered(answer) ==
    [call EXCEPT
        !.done = TRUE,
        !.ret = [@ EXCEPT !.pc = "done", !.threshold = 0, !.rows = <<>>,
                          !.counts = NoCounts, !.pending = {},
                          !.first = IF call.ret.round = 1 THEN answer ELSE @,
                          !.second = IF call.ret.round = 1 THEN @ ELSE answer,
                          !.again = call.ret.round # 1]]

(* JobModel.findById, answered 404 when there is no such job *)
GetCandidatesJob ==
    /\ call.fn = "getCandidates" /\ call.ret.pc = "job"
    /\ call' = IF JobFound(call.arg.job)
               THEN [call EXCEPT !.ret.pc = "list",
                                 !.ret.threshold = jobs[call.arg.job].threshold]
               ELSE GetCandidatesAnswered([status |-> 404, data |-> NoRanking])
    /\ UNCHANGED sysvars

(* getRankedResults: CandidateModel.findByJobId; getStats is called *)
GetCandidatesList ==
    /\ call.fn = "getCandidates" /\ call.ret.pc = "list"
    /\ call' = [call EXCEPT !.ret.pc = "stats",
                            !.ret.rows = findByJobId(call.arg.job),
                            !.ret.pending = AllCounts]
    /\ UNCHANGED sysvars

(* CandidateModel.getStats: one of the counts of its Promise.all is read,  *)
(* in any order; with the last of them the 200 answer                      *)
GetCandidatesCount(k) ==
    /\ call.fn = "getCandidates" /\ call.ret.pc = "stats"
    /\ k \in call.ret.pending
    /\ LET counts == [call.ret.counts EXCEPT ![k] = countDocuments(call.arg.job, k)]
       IN  call' = IF call.ret.pending = {k}
                   THEN GetCandidatesAnswered(
                            [status |-> 200,
                             data |-> getRankedResults(call.ret.rows, counts,
                                                       call.ret.threshold,
                                                       call.arg.filters)])
                   ELSE [call EXCEPT !.ret.counts = counts,
                                     !.ret.pending = @ \ {k}]
    /\ UNCHANGED sysvars

(* the catch of getCandidates: a read is rejected by the store, the        *)
(* answer is 500                                                           *)
GetCandidatesFail ==
    /\ call.fn = "getCandidates" /\ call.ret.pc \in {"job", "list", "stats"}
    /\ call' = GetCandidatesAnswered([status |-> 500, data |-> NoRanking])
    /\ UNCHANGED sysvars

(* the same request once more *)
GetCandidatesAgain ==
    /\ call.fn = "getCandidates" /\ call.ret.pc = "done" /\ call.ret.round = 1
    /\ call' = [call EXCEPT !.ret.pc = "job", !.ret.round = 1 + 1]
    /\ UNCHANGED sysvars

GetCandidatesProceeds ==
    \/ GetCandidatesJob
    \/ GetCandidatesList
    \/ \E k \in AllCounts : GetCandidatesCount(k)
    \/ GetCandidatesAgain

(* the request on a store that no other request changes *)
InitRanked == InitStored /\ call \in GetCandidatesRequests

NextRanked == GetCandidatesProceeds

SpecRanked == InitRanked /\ [][NextRanked]_vars

(* ---- POST /api/jobs/:jobId/candidates/compare:                       ---- *)
(* ---- CandidateController.compareCandidates                           ---- *)

MaxIds == 3

(* the bodies: no candidateIds, or a list of ids, stored or not *)
CompareBodies ==
    {[given |-> FALSE, candidateIds |-> <<>>]}
        \cup {[given |-> TRUE, candidateIds |-> ids] :
                 ids \in SeqsUpTo(CandIds, MaxIds)}

CompareRequests ==
    {NewCall("compareCandidates", [job |-> j, body |-> b],
             [pc |-> "start", read |-> <<>>, pending |-> {},
              status |-> 0, error |-> "", comparison |-> NoComparison]) :
        j \in JobIds, b \in CompareBodies}

CompareArrive ==
    /\ call = NoCall
    /\ call' \in CompareRequests
    /\ UNCHANGED sysvars

(* the answer of compareCandidates *)
CompareAnswered(status, error, comparison) ==
    [call EXCEPT
        !.done = TRUE,
        !.ret = [@ EXCEPT !.pc = "done", !.read = <<>>, !.pending = {},
                          !.status = status, !.error = error,
                          !.comparison = comparison]]

(* a body without an array candidateIds of two entries at least is         *)
(* answered 400; JobModel.findById, answered 404 when there is no such     *)
(* job; rankingService.compareCandidates is called                         *)
CompareStart ==
    /\ call.fn = "compareCandidates" /\ call.ret.pc = "start"
    /\ LET candidateIds == call.arg.body.candidateIds
       IN  call' =
               IF ~call.arg.body.given \/ Len(candidateIds) < 2
               THEN CompareAnswered(400, "provide at least 2 candidate ids",
                                    NoComparison)
               ELSE IF ~JobFound(call.arg.job)
               THEN CompareAnswered(404, "job not found", NoComparison)
               ELSE [call EXCEPT
                        !.ret.pc = "find",
                        !.ret.read = [k \in DOMAIN candidateIds |-> NoDocument],
                        !.ret.pending = DOMAIN candidateIds]
    /\ UNCHANGED sysvars

(* RankingService.compareCandidates: one CandidateModel.findById of its    *)
(* Promise.all is read, in any order; with the last of them the service    *)
(* returns or throws, and the answer is 200 or 500                         *)
CompareFind(k) ==
    /\ call.fn = "compareCandidates" /\ call.ret.pc = "find"
    /\ k \in call.ret.pending
    /\ LET document == findById(call.arg.body.candidateIds[k])
           read == [call.ret.read EXCEPT
                       ![k] = IF document.found THEN document ELSE NoDocument]
           result == serviceCompare(read)
       IN  call' =
               IF call.ret.pending # {k}
               THEN [call EXCEPT !.ret.read = read, !.ret.pending = @ \ {k}]
               ELSE IF result.thrown
               THEN CompareAnswered(500, "need at least 2 valid candidates",
                                    NoComparison)
               ELSE CompareAnswered(200, "", result.comparison)
    /\ UNCHANGED sysvars

(* the catch of compareCandidates: a read is rejected by the store, the    *)
(* answer is 500 with the message of the store                             *)
CompareFail ==
    /\ call.fn = "compareCandidates"
    /\ \/ call.ret.pc = "find"
       \/ /\ call.ret.pc = "start"
          /\ call.arg.body.given /\ Len(call.arg.body.candidateIds) >= 2
    /\ call' = CompareAnswered(500, "rejected by the store", NoComparison)
    /\ UNCHANGED sysvars

CompareProceeds ==
    \/ CompareStart
    \/ \E k \in 1..MaxIds : CompareFind(k)

(* the request on a store that no other request changes *)
InitCompare == InitStored /\ call \in CompareRequests

SpecCompare == InitCompare /\ [][CompareProceeds]_vars

(* ---- GET /api/jobs/:jobId/candidates/:candidateId:                   ---- *)
(* ---- CandidateController.getCandidate                                ---- *)

GetCandidateRequests ==
    {NewCall("getCandidate", [job |-> j, candidate |-> c],
             [pc |-> "find", status |-> 0, id |-> 0, score_total |-> 0]) :
        j \in JobIds, c \in CandIds}

GetCandidateArrive ==
    /\ call = NoCall
    /\ call' \in GetCandidateRequests
    /\ UNCHANGED sysvars

(* CandidateModel.findById, answered 404 when there is no such candidate   *)
(* or it is of another job                                                 *)
GetCandidateFind ==
    /\ call.fn = "getCandidate" /\ call.ret.pc = "find"
    /\ LET candidate == findById(call.arg.candidate)
       IN  call' =
               IF ~candidate.found \/ candidate.job_id # call.arg.job
               THEN [call EXCEPT !.done = TRUE, !.ret.pc = "done",
                                 !.ret.status = 404]
               ELSE [call EXCEPT !.ret.pc = "job",
                                 !.ret.id = candidate.id,
                                 !.ret.score_total = candidate.score_total]
    /\ UNCHANGED sysvars

(* JobModel.findById, for the title of the job, then the 200 answer with   *)
(* the candidate as read                                                   *)
GetCandidateJob ==
    /\ call.fn = "getCandidate" /\ call.ret.pc = "job"
    /\ call' = [call EXCEPT !.done = TRUE, !.ret.pc = "done", !.ret.status = 200]
    /\ UNCHANGED sysvars

(* the catch of getCandidate: a read is rejected by the store, the answer  *)
(* is 500                                                                  *)
GetCandidateFail ==
    /\ call.fn = "getCandidate" /\ call.ret.pc \in {"find", "job"}
    /\ call' = [call EXCEPT !.done = TRUE, !.ret.pc = "done", !.ret.status = 500]
    /\ UNCHANGED sysvars

GetCandidateProceeds == GetCandidateFind \/ GetCandidateJob

----------------------------------------------------------------------------
(* Properties of ranking and comparison.                                   *)

(* the job's candidates that pass the filters of the request *)
Listed(j, filters) ==
    {c \in CandidatesOf(j) :
        /\ filters.classification # "" =>
               cands[c].classification = filters.classification
        /\ filters.minScore # Undefined => cands[c].scoreTotal >= filters.minScore
        /\ filters.maxScore # Undefined => cands[c].scoreTotal <= filters.maxScore}

(* C13: ranking a job's candidates gives a permutation of them in          *)
(* non-increasing total score, the i-th having rank i, equal totals in     *)
(* creation order, and ranking the unchanged set again gives the same.     *)
RankingIsStableAndDescending ==
    (Called("getCandidates") /\ call.ret.first.status = 200) =>
        LET r == call.ret.first.data.candidates
            listed == Listed(call.arg.job, call.arg.filters)
        IN  /\ Len(r) = Cardinality(listed)
            /\ {r[i].id : i \in DOMAIN r} = listed
            /\ \A i \in DOMAIN r :
                  r[i].rank = i /\ r[i].score_total = cands[r[i].id].scoreTotal
            /\ \A i, k \in DOMAIN r :
                  i < k => /\ r[i].score_total >= r[k].score_total
                           /\ r[i].score_total = r[k].score_total
                                  => r[i].id < r[k].id
            /\ call.ret.again => call.ret.second = call.ret.first

RankingWithTieSeen ==
    /\ Called("getCandidates") /\ call.ret.again
    /\ Len(call.ret.first.data.candidates) = 3
    /\ call.ret.first.data.candidates[1].score_total = 65
    /\ call.ret.first.data.candidates[2].score_total = 65
    /\ call.ret.first.data.candidates[3].score_total = 45
    /\ cands[1].scoreTotal = 45

(* the entries of the supplied list that resolve to stored candidates *)
Resolvable(ids) == SelectSeq(ids, LAMBDA c : c \in CandIds /\ cands[c].exists)

(* the first of the ids whose score in the field is the highest of all     *)
FirstHighest(ids, field) ==
    LET top == CHOOSE x \in {cands[ids[k]][field] : k \in DOMAIN ids} :
                   \A k \in DOMAIN ids : cands[ids[k]][field] <= x
        first == CHOOSE k \in DOMAIN ids :
                     /\ cands[ids[k]][field] = top
                     /\ \A m \in DOMAIN ids : cands[ids[m]][field] = top => k <= m
    IN  ids[first]

(* C14: for two or more resolvable candidates, the winner of each          *)
(* dimension and the overall winner have the highest score there, the      *)
(* earliest in the supplied list winning a tie.                            *)
WinnersAreFirstHighest ==
    (Called("compareCandidates") /\ call.ret.status = 200) =>
        LET ids == Resolvable(call.arg.body.candidateIds)
            c == call.ret.comparison
        IN  /\ Len(ids) >= 2
            /\ c.skills = FirstHighest(ids, "scoreSkills")
            /\ c.experience = FirstHighest(ids, "scoreExperience")
            /\ c.projects = FirstHighest(ids, "scoreProjects")
            /\ c.education = FirstHighest(ids, "scoreEducation")
            /\ c.overallWinner = FirstHighest(ids, "scoreTotal")

WinnerOfTieSeen ==
    /\ Called("compareCandidates") /\ call.ret.status = 200
    /\ call.arg.body.candidateIds = <<3, 1, 2>>
    /\ cands[1].scoreTotal = cands[3].scoreTotal
    /\ cands[2].scoreTotal < cands[3].scoreTotal
    /\ cands[1].scoreExperience > cands[3].scoreExperience
    /\ cands[1].scoreSkills < cands[3].scoreSkills
    /\ call.ret.comparison.overallWinner = 3
    /\ call.ret.comparison.experience = 1
    /\ call.ret.comparison.education = 3

(* C15: a comparison of fewer than two resolvable candidates, too few ids  *)
(* or ids that do not resolve, is answered with an error and no winners,   *)
(* the insufficient-candidates error when the job exists, and no request   *)
(* changes the store.                                                      *)
TooFewCandidatesIsAnError ==
    /\ []((/\ Called("compareCandidates")
            /\ \/ Len(Resolvable(call.arg.body.candidateIds)) < 2
               \/ ~call.arg.body.given) =>
                /\ call.ret.status \in {400, 404, 500}
                /\ call.ret.comparison = NoComparison
                /\ JobFound(call.arg.job) =>
                      \/ /\ call.ret.status = 400
                         /\ call.ret.error = "provide at least 2 candidate ids"
                      \/ /\ call.ret.status = 500
                         /\ call.ret.error = "need at least 2 valid candidates")
    /\ [][CompareProceeds => UNCHANGED <<jobs, cands, nextCand>>]_vars

UnresolvedIdSeen ==
    /\ Called("compareCandidates")
    /\ Len(call.arg.body.candidateIds) = 3
    /\ Len(Resolvable(call.arg.body.candidateIds)) = 1
    /\ JobFound(call.arg.job)
    /\ call.ret.status = 500

----------------------------------------------------------------------------
(* Uploads whose steps of the program are taken in the end.  The answer of *)
(* the explanation collaborator, awaited by calculateMatch, is a step of   *)
(* the collaborator: nothing in the program makes it happen.               *)

NextUpload ==
    \/ \E j \in JobIds : CreateJobRecord(j)
    \/ \E j \in JobIds : CreateJobAnalyzed(j)
    \/ UploadArrives
    \/ UploadProceeds

(* the steps the program takes by itself once a request is being served *)
ProgramStep ==
    \/ \E p \in UploadReqs : ProcessCreate(p)
    \/ \E p \in UploadReqs : ProcessFail(p)
    \/ \E p \in UploadReqs : ProcessSave(p)
    \/ \E p \in UploadReqs : ProcessSaveFail(p)
    \/ \E p \in UploadReqs, k \in CountsUsed : UploadStatsRead(p, k)
    \/ \E p \in UploadReqs : UploadCounts(p)
    \/ \E p \in UploadReqs : UploadCleanup(p)
    \/ \E p \in UploadReqs : UploadAbort(p)
    \/ \E p \in UploadReqs : UploadRespond(p)

SpecUploadFair == Init /\ [][NextUpload]_vars /\ WF_vars(ProgramStep)

----------------------------------------------------------------------------
(* Requests served one at a time: a request starts when no other is being  *)
(* served.                                                                 *)

NoRequestRunning ==
    /\ \A u \in UpdateReqs : upd[u].pc = "idle"
    /\ \A p \in UploadReqs : upl[p].pc = "idle"
    /\ del.pc = "idle"

NextServed ==
    \/ \E j \in JobIds : CreateJobRecord(j)
    \/ \E j \in JobIds : CreateJobAnalyzed(j)
    \/ \E u \in UpdateReqs, j \in JobIds, t \in ThresholdInputs :
          NoRequestRunning /\ UpdateStart(u, j, t)
    \/ \E u \in UpdateReqs : UpdateWrite(u)
    \/ \E u \in UpdateReqs : UpdateLoad(u)
    \/ \E u \in UpdateReqs : UpdateSweep(u)
    \/ \E u \in UpdateReqs : UpdateCounts(u)
    \/ \E u \in UpdateReqs : UpdateRespond(u)
    \/ \E p \in UploadReqs, j \in JobIds, n \in 0..MaxFiles :
          NoRequestRunning /\ UploadStart(p, j, n)
    \/ \E p \in UploadReqs, n \in 0..MaxFiles :
          NoRequestRunning /\ UploadStartFail(p, n)
    \/ UploadProceeds

SpecServed == Init /\ [][NextServed]_vars

----------------------------------------------------------------------------
(* Properties of the threshold update and of the batch upload.             *)

(* C16: the counts a successful threshold update answers with: total is    *)
(* the number of the job's candidates, the three class counts add up to    *)
(* it, and each is the number of candidates stored with that label when    *)
(* the update completes.                                                   *)
UpdateCountsMatchStore ==
    \A u \in UpdateReqs :
        (upd[u].pc = "done" /\ upd[u].status = 200) =>
            /\ upd[u].i = Cardinality(CandidatesOf(upd[u].job))
            /\ upd[u].shortlisted + upd[u].borderline + upd[u].rejected = upd[u].i
            /\ upd[u].shortlisted = CountClass(upd[u].job, "shortlisted")
            /\ upd[u].borderline = CountClass(upd[u].job, "borderline")
            /\ upd[u].rejected = CountClass(upd[u].job, "rejected")

UpdateCountsOfThreeSeen ==
    \E u \in UpdateReqs :
        /\ upd[u].pc = "done" /\ upd[u].status = 200
        /\ upd[u].threshold = 50
        /\ upd[u].i = 3
        /\ upd[u].shortlisted = 1 /\ upd[u].borderline = 1 /\ upd[u].rejected = 1
        /\ \E c \in CandIds : cands[c].status = "pending" /\ cands[c].exists

(* a threshold update request is answered 400 or 404 *)
UpdateRejected(u) ==
    upd[u].pc = "idle" /\ upd'[u].pc = "done" /\ upd'[u].status \in {400, 404}

(* C17: a rejected threshold update leaves every stored threshold, every   *)
(* classification and the jobs' counters as they were, and the threshold   *)
(* stored on a job is in [0, 100] in every reachable state.                *)
StoredThresholdStaysInRange ==
    /\ [][(\E u \in UpdateReqs : UpdateRejected(u)) =>
             UNCHANGED <<jobs, cands>>]_vars
    /\ [](\A j \in JobIds : JobFound(j) => jobs[j].threshold \in 0..100)

(* C20: in a batch upload every file ends in results or in errors, a       *)
(* failing file leaves the others to be processed: the results and the     *)
(* errors of the answer add up to the files uploaded, and every result is  *)
(* a stored, processed candidate of the job.  No failure of a file takes   *)
(* the request to the outer catch: the answer is 201 unless the store      *)
(* rejects findById, getStats or updateCounts, which fails the request     *)
(* with 500 and leaves the candidates of the processed files stored.       *)
BatchIsolatesFailures ==
    \A p \in UploadReqs :
        upl[p].uploaded > 0 =>
            /\ Len(upl[p].results) + upl[p].failed + upl[p].files
                   = upl[p].uploaded
            /\ upl[p].pc \in {"counts", "cleanup"} => upl[p].files = 0
            /\ upl[p].pc = "done" =>
                  \/ upl[p].status = 201 /\ upl[p].files = 0
                  \/ upl[p].status = 500 /\ upl[p].failed = 0 /\ upl[p].files > 0
                  \/ upl[p].status = 500 /\ upl[p].files = 0
            /\ \A k \in DOMAIN upl[p].results :
                  LET c == upl[p].results[k]
                  IN  /\ cands[c].exists /\ cands[c].jobId = upl[p].job
                      /\ cands[c].status = "processed"

BatchWithFailureSeen ==
    \E p \in UploadReqs :
        /\ upl[p].pc = "done" /\ upl[p].status = 201
        /\ upl[p].uploaded = 2
        /\ upl[p].failed = 1
        /\ upl[p].results = <<2>>
        /\ cands[1].exists /\ cands[1].status = "pending"

----------------------------------------------------------------------------
(* Properties of the explanation.                                          *)

(* C18: when the explanation collaborator fails, calculateMatch does not   *)
(* fail: it returns the four scores of the scorers and their weighted      *)
(* total, as it does when the collaborator answers, with an explanation    *)
(* made of the scores alone, its summary citing the total and its          *)
(* recommendation hire from a total of 70 on, maybe below.                 *)
CollaboratorFailureFallsBack ==
    Called("calculateMatchExplained") =>
        LET jd == call.arg.jd
            resume == call.arg.resume
            skills == calculateSkillsScore(jd, resume.skills)
            experience == calculateExperienceScore(
                              jd.experience,
                              totalExperienceYears(resume.total_months),
                              resume.domains)
            projects == calculateProjectsScore(jd, resume.projects)
            education == calculateEducationScore(jd.education,
                                                 resume.highest_degree,
                                                 resume.fields)
            total == totalScore(skills, experience, projects, education)
        IN  /\ ~call.ret.thrown
            /\ call.ret.scores =
                   [total |-> total, skills |-> skills,
                    experience |-> experience, projects |-> projects,
                    education |-> education]
            /\ call.arg.outcome # "answer" =>
                  /\ call.ret.explanation =
                         [summary |-> [text |-> "Candidate scored /100",
                                       total |-> total],
                          strengths |-> <<>>, gaps |-> <<>>,
                          recommendation |-> IF total >= 70 THEN "hire"
                                             ELSE "maybe"]

FallbackExplanationSeen ==
    /\ Called("calculateMatchExplained")
    /\ call.arg.outcome = "response not ok"
    /\ call.ret.scores.total \in 1..69
    /\ call.ret.scores.skills # call.ret.scores.experience
    /\ call.ret.explanation.recommendation = "maybe"

(* C19: the call of the explanation collaborator does not hold back the    *)
(* scores: once the scoring of a candidate has started, the candidate is   *)
(* stored with its scores in the end, or its file has failed, whether the  *)
(* collaborator answers or not.                                            *)
ScoresPersistedWithoutCollaborator ==
    \A p \in UploadReqs : \A c \in CandIds :
        (upl[p].pc = "match" /\ upl[p].candidate = c)
            ~> (cands[c].status = "processed" \/ upl[p].candidate # c)

----------------------------------------------------------------------------
(* The configuration module and the start of the engine.                   *)

(* weights are written in ten-thousandths: 5000 is the literal 0.50 *)
WeightUnit == 10 * 1000

ShippedWeights ==
    [skills |-> 5000, experience |-> 2500, projects |-> 1500, education |-> 1000]

(* the tables the configuration module may be written with *)
WeightTables ==
    [skills : {5000, 5010, 5011, 4990, 4989, 6000},
     experience : {2500, 2000},
     projects : {1500, 1000},
     education : {1000, 500}]

(* Object.values(config.scoring.weights).reduce((a, b) => a + b, 0) *)
weightSum(weights) ==
    FAdd(FAdd(FAdd(FAdd(FInt(0), FDec(weights.skills, WeightUnit)),
                   FDec(weights.experience, WeightUnit)),
              FDec(weights.projects, WeightUnit)),
         FDec(weights.education, WeightUnit))

(* Math.abs(x - 1.0) *)
AbsMinusOne(x) == IF FGeq(x, FInt(1)) THEN FSub(x, FInt(1)) ELSE FSub(FInt(1), x)

(* a configuration module that validates nothing *)
configThrowsNever(weights) == FALSE

(* the configuration module throws: Math.abs(weightSum - 1.0) > 0.001 *)
configThrows(weights) == FGt(AbsMinusOne(weightSum(weights)), FDec(1, 1000))

(* the weighted total of calculateMatch with the weights of the engine *)
totalScoreWith(weights, skillsScore, experienceScore, projectsScore, educationScore) ==
    MathRound(FAdd(FAdd(FAdd(FMul(FInt(skillsScore),
                                  FDec(weights.skills, WeightUnit)),
                             FMul(FInt(experienceScore),
                                  FDec(weights.experience, WeightUnit))),
                        FMul(FInt(projectsScore),
                             FDec(weights.projects, WeightUnit))),
                   FMul(FInt(educationScore),
                        FDec(weights.education, WeightUnit))))

(* the process: the configuration module is evaluated, then the module of  *)
(* the matching service constructs the engine, then scoring calls run      *)
InitStartup ==
    /\ SysInit
    /\ call \in {NewCall("startup", [weights |-> w],
                         [config |-> "unloaded", engine |-> FALSE,
                          weights |-> ShippedWeights, scored |-> 0,
                          total |-> 0]) :
                    w \in WeightTables}

(* import of the configuration module *)
LoadConfig ==
    /\ call.fn = "startup" /\ call.ret.config = "unloaded"
    /\ call' = [call EXCEPT !.ret.config =
                   IF configThrows(call.arg.weights) THEN "failed" ELSE "loaded"]
    /\ UNCHANGED sysvars

(* new MatchingService(): this.weights = config.scoring.weights *)
ConstructEngine ==
    /\ call.fn = "startup" /\ call.ret.config = "loaded" /\ ~call.ret.engine
    /\ call' = [call EXCEPT !.ret.engine = TRUE,
                            !.ret.weights = call.arg.weights]
    /\ UNCHANGED sysvars

MaxScored == 2

(* a call of calculateMatch: the total is computed with this.weights *)
ScoreWithEngine ==
    /\ call.fn = "startup" /\ call.ret.engine
    /\ call.ret.scored < MaxScored
    /\ \E match \in MatchResults :
          call' = [call EXCEPT
                      !.ret.scored = @ + 1,
                      !.done = TRUE,
                      !.ret.total = totalScoreWith(call.ret.weights, match.skills,
                                                   match.experience,
                                                   match.projects,
                                                   match.education)]
    /\ UNCHANGED sysvars

NextStartup == LoadConfig \/ ConstructEngine \/ ScoreWithEngine

SpecStartup == InitStartup /\ [][NextStartup]_vars

(* the sum of a table, in ten-thousandths *)
SumOfWeights(weights) ==
    weights.skills + weights.experience + weights.projects + weights.education

(* C21: the weights are validated when the configuration module is         *)
(* evaluated: a table that is more than 0.001 off 1.0 makes it fail, and   *)
(* then no engine is constructed and no scoring call runs; the shipped     *)
(* table loads; a scoring call validates nothing and always returns.       *)
WeightsValidatedAtStartup ==
    (call.fn = "startup") =>
        LET off == SumOfWeights(call.arg.weights) - WeightUnit
        IN  /\ (call.ret.config # "unloaded" /\ (off > 10 \/ off < 0 - 10)) =>
                  call.ret.config = "failed"
            /\ call.ret.config = "failed" =>
                  ~call.ret.engine /\ call.ret.scored = 0
            /\ call.ret.engine => call.ret.config = "loaded"
            /\ call.ret.scored > 0 => call.ret.engine
            /\ (call.ret.config # "unloaded"
                    /\ call.arg.weights = ShippedWeights) =>
                  call.ret.config = "loaded"
            /\ (call.ret.scored > 0 /\ call.arg.weights = ShippedWeights) =>
                  call.ret.total \in Totals

ShippedWeightsScoreSeen ==
    /\ call.fn = "startup"
    /\ call.arg.weights = ShippedWeights
    /\ call.ret.engine /\ call.ret.scored = MaxScored
    /\ call.ret.total = 65

BadWeightsRefusedSeen ==
    /\ call.fn = "startup"
    /\ SumOfWeights(call.arg.weights) = 10011
    /\ call.ret.config = "failed"

----------------------------------------------------------------------------
(* Deleting a job while resumes are uploaded for it.                       *)

NextDeleteJob ==
    \/ \E j \in JobIds : CreateJobRecord(j)
    \/ \E j \in JobIds : CreateJobAnalyzed(j)
    \/ UploadArrives
    \/ UploadProceeds
    \/ \E j \in JobIds : DeleteJobArrive(j)
    \/ DeleteJobProceeds
    \/ DeleteRespond

SpecDeleteJob == Init /\ [][NextDeleteJob]_vars

(* C22: once deleteJob has succeeded for a job, no candidate of that job   *)
(* is in the store, whatever uploads for the job were in flight.           *)
DeletedJobHasNoCandidates ==
    \A j \in JobIds : jobs[j].phase = "deleted" => CandidatesOf(j) = {}

----------------------------------------------------------------------------
(* Properties of the upload directory.                                     *)

(* C23: once uploadResumes has answered, with 201, 400 or 404, none of the *)
(* files uploaded with the request is in the upload directory.             *)
NoFileLeftAfterAnswer ==
    \A p \in UploadReqs : upl[p].pc = "done" => upl[p].stored = 0

----------------------------------------------------------------------------
(* Properties of the counters of a job.                                    *)

(* C24: whenever no upload, no deletion and no threshold update is being   *)
(* served, the totalCandidates of a job is the number of its candidates    *)
(* and its shortlistedCount the number of them labelled shortlisted.       *)
CountersMatchStoreAtRest ==
    (UpdatesAtRest /\ UploadsAtRest /\ del.pc \in {"idle", "done"}) =>
        \A j \in JobIds :
            JobFound(j) =>
                /\ jobs[j].totalCandidates = Cardinality(CandidatesOf(j))
                /\ jobs[j].shortlistedCount = CountClass(j, "shortlisted")

----------------------------------------------------------------------------
(* Properties of the candidates that are not scored.                       *)

(* C25: a candidate whose status is pending, created and not yet scored,   *)
(* has no classification, so that no threshold update and no statistics    *)
(* count it under a label.                                                 *)
PendingIsUnclassified ==
    \A c \in CandIds :
        (cands[c].exists /\ cands[c].status = "pending") =>
            cands[c].classification = "null"

(* C26: a resume whose processing fails leaves no candidate behind: when   *)
(* an upload has been answered, the candidates of the job are those        *)
(* reported as processed, every one of them with status processed.         *)
FailedResumeLeavesNoCandidate ==
    \A p \in UploadReqs :
        (upl[p].pc = "done" /\ upl[p].status = 201) =>
            \A c \in CandidatesOf(upl[p].job) : cands[c].status = "processed"

----------------------------------------------------------------------------
(* Requests on one candidate, and the job they name.                       *)

(* a second job, of which only the candidates are in the store *)
OtherJob == 1 + 1

(* the store after uploads to two jobs: owner gives the job of a candidate *)
ScopedStore(n, results, owner) ==
    /\ jobs = [j \in JobIds |->
                  [phase |-> "analyzed", threshold |-> jobThresholdDefault,
                   totalCandidates |-> Cardinality({c \in 1..n : owner[c] = j}),
                   shortlistedCount |->
                       Cardinality({c \in 1..n :
                           /\ owner[c] = j
                           /\ classifyCandidate(results[c].total,
                                                jobThresholdDefault)
                                  = "shortlisted"})]]
    /\ cands = [c \in CandIds |->
                   IF c <= n
                   THEN Analysed(NewCandidate(owner[c]), results[c],
                                 classifyCandidate(results[c].total,
                                                   jobThresholdDefault))
                   ELSE NoCandidate]
    /\ nextCand = n + 1
    /\ upd = [u \in UpdateReqs |-> IdleUpdate]
    /\ upl = [p \in UploadReqs |-> IdleUpload]
    /\ del = IdleDelete

InitScoped ==
    /\ \E n \in 1..MaxCandidates :
          \E results \in [1..n -> MatchResults], owner \in [1..n -> {1, OtherJob}] :
              ScopedStore(n, results, owner)
    /\ call = NoCall

(* one candidate is read or deleted, or candidates are compared, a         *)
(* request at a time                                                       *)
NextScoped ==
    \/ del.pc = "idle" /\ GetCandidateArrive
    \/ GetCandidateProceeds
    \/ del.pc = "idle" /\ CompareArrive
    \/ CompareProceeds
    \/ ReadRespond
    \/ \E j \in JobIds, c \in CandIds :
          call = NoCall /\ DeleteCandidateArrive(j, c)
    \/ DeleteCandidateProceeds
    \/ DeleteRespond

SpecScoped == InitScoped /\ [][NextScoped]_vars

(* C27: a request naming a job reads and changes only candidates of that   *)
(* job: getCandidate and deleteCandidate answer 404 for a candidate of     *)
(* another job and change nothing, and a comparison holds only candidates  *)
(* of the job, each of them once.                                          *)
CandidateRequestsAreScoped ==
    /\ []((Called("getCandidate") /\ cands[call.arg.candidate].exists
             /\ cands[call.arg.candidate].jobId # call.arg.job) =>
             call.ret.status = 404)
    /\ []((del.kind = "candidate" /\ del.pc # "find"
             /\ cands[del.candidate].exists
             /\ cands[del.candidate].jobId # del.job) =>
             del.status \in {404, 500})
    /\ [][\A c \in CandIds :
             (cands[c].exists /\ cands[c].jobId \notin JobIds) =>
                 cands'[c] = cands[c]]_vars
    /\ []((Called("compareCandidates") /\ call.ret.status = 200) =>
             LET compared == call.ret.comparison.candidates
             IN  /\ \A k \in DOMAIN compared :
                       cands[compared[k]].jobId = call.arg.job
                 /\ \A k, m \in DOMAIN compared :
                       compared[k] = compared[m] => k = m)

----------------------------------------------------------------------------
(* A project whose one technology is the name of the one required skill.   *)

InitIdentical ==
    /\ SysInit
    /\ call \in {NewCall("projectOfRequiredSkill", [name |-> n],
                         [pc |-> "analyze",
                          skill |-> [name |-> <<>>, normalized |-> <<>>,
                                     importance |-> 0],
                          score |-> 0]) :
                    n \in SkillNames}

(* the job description is analysed: the skill gets its normalized form *)
EnrichRequiredSkill ==
    /\ call.fn = "projectOfRequiredSkill" /\ call.ret.pc = "analyze"
    /\ call' = [call EXCEPT !.ret.pc = "score",
                            !.ret.skill = enrichSkill(call.arg.name, 0)]
    /\ UNCHANGED sysvars

(* the project is scored against the stored job description *)
ScoreProjectOfSkill ==
    /\ call.fn = "projectOfRequiredSkill" /\ call.ret.pc = "score"
    /\ Return([call.ret EXCEPT
                  !.pc = "done",
                  !.score = calculateProjectsScore(
                                [required_skills |-> <<call.ret.skill>>],
                                << <<call.arg.name>> >>)])
    /\ UNCHANGED sysvars

NextIdentical == EnrichRequiredSkill \/ ScoreProjectOfSkill

SpecIdentical == InitIdentical /\ [][NextIdentical]_vars

(* C28: a project technology identical to the name of a required skill     *)
(* matches it: the project, whose only technology it is, is fully relevant *)
(* and scores 100.                                                         *)
IdenticalTechnologyMatches ==
    Called("projectOfRequiredSkill") => call.ret.score = 100

----------------------------------------------------------------------------
(* Properties of the field bonus.                                          *)

(* C29: the field bonus is earned only by a candidate with an education    *)
(* entry whose field is not empty and contains, or is contained in, a      *)
(* required field: without such an entry the score is the one of the       *)
(* degree alone.                                                           *)
FieldBonusNeedsField ==
    Called("calculateEducationScore") =>
        LET education == call.arg.education
            fields    == call.arg.fields
            named     == SelectSeq(fields, LAMBDA f : f # <<>>)
            degreeOnly ==
                calculateEducationScore(education, call.arg.highest_degree, <<>>)
        IN  call.ret # degreeOnly =>
                \E i \in DOMAIN education.required_fields : \E j \in DOMAIN named :
                    \/ includes(toLowerCase(named[j]),
                                toLowerCase(education.required_fields[i]))
                    \/ includes(toLowerCase(education.required_fields[i]),
                                toLowerCase(named[j]))

----------------------------------------------------------------------------
(* Threshold updates during which a call on the store is rejected: the     *)
(* catch of updateThreshold answers 500.                                   *)

(* the thresholds that pass the validation as numbers *)
NumericThresholds == {t \in ThresholdInputs : t >= 0 /\ t <= 100}

(* updates served one at a time on a job whose candidates are scored *)
NextFailing ==
    \/ \E u \in UpdateReqs, j \in JobIds, t \in NumericThresholds :
          NoRequestRunning /\ UpdateStart(u, j, t)
    \/ \E u \in UpdateReqs, j \in JobIds, t \in NumericThresholds :
          NoRequestRunning /\ UpdateStartFail(u, j, t)
    \/ \E u \in UpdateReqs : UpdateWrite(u)
    \/ \E u \in UpdateReqs : UpdateWriteFail(u)
    \/ \E u \in UpdateReqs : UpdateLoad(u)
    \/ \E u \in UpdateReqs : UpdateLoadFail(u)
    \/ \E u \in UpdateReqs : UpdateSweep(u)
    \/ \E u \in UpdateReqs : UpdateSweepFail(u)
    \/ \E u \in UpdateReqs : UpdateCounts(u)
    \/ \E u \in UpdateReqs : UpdateCountsFail(u)
    \/ \E u \in UpdateReqs : UpdateRespond(u)

SpecFailing == InitClassified /\ [][NextFailing]_vars

(* C30: a threshold update is all or nothing: once an update has failed    *)
(* with 500, the stored threshold, every label and the counters agree with *)
(* each other as they did before it; the stored threshold is never the new *)
(* one while a label or a counter is of the old one.                       *)
FailedUpdateChangesNothing ==
    \A u \in UpdateReqs :
        (upd[u].pc = "done" /\ upd[u].status = 500) =>
            LET j == upd[u].job
            IN  /\ \A c \in CandidatesOf(j) :
                      cands[c].classification =
                          classifyCandidate(cands[c].scoreTotal, jobs[j].threshold)
                /\ jobs[j].totalCandidates = Cardinality(CandidatesOf(j))
                /\ jobs[j].shortlistedCount = CountClass(j, "shortlisted")

----------------------------------------------------------------------------
(* The whole program: every request of the routes that read or change the  *)
(* jobs and the candidates, their steps interleaved, and every command on  *)
(* the store answered or rejected.                                         *)

Next ==
    \/ \E j \in JobIds : CreateJobRecord(j)
    \/ \E j \in JobIds : CreateJobAnalyzed(j)
    \/ \E u \in UpdateReqs, j \in JobIds, t \in ThresholdInputs : UpdateStart(u, j, t)
    \/ \E u \in UpdateReqs, j \in JobIds, t \in ThresholdInputs :
          UpdateStartFail(u, j, t)
    \/ \E u \in UpdateReqs : UpdateWrite(u)
    \/ \E u \in UpdateReqs : UpdateWriteFail(u)
    \/ \E u \in UpdateReqs : UpdateLoad(u)
    \/ \E u \in UpdateReqs : UpdateLoadFail(u)
    \/ \E u \in UpdateReqs : UpdateSweep(u)
    \/ \E u \in UpdateReqs : UpdateSweepFail(u)
    \/ \E u \in UpdateReqs : UpdateCounts(u)
    \/ \E u \in UpdateReqs : UpdateCountsFail(u)
    \/ \E u \in UpdateReqs : UpdateRespond(u)
    \/ UploadArrives
    \/ UploadProceeds
    \/ \E j \in JobIds : DeleteJobArrive(j)
    \/ DeleteJobProceeds
    \/ \E j \in JobIds, c \in CandIds : DeleteCandidateArrive(j, c)
    \/ DeleteCandidateProceeds
    \/ DeleteRespond
    \/ GetCandidatesArrive
    \/ GetCandidatesProceeds
    \/ GetCandidatesFail
    \/ GetCandidateArrive
    \/ GetCandidateProceeds
    \/ GetCandidateFail
    \/ CompareArrive
    \/ CompareProceeds
    \/ CompareFail
    \/ ReadRespond

Spec == Init /\ [][Next]_vars
====
